---- MODULE Spec2Model ----
(***************************************************************************)
(* Model of the meatloaf dumper: the page cache (MemCache) in front of a   *)
(* remote memory reader, the typed pointer reads built on it, and the      *)
(* reflection walker (dump_inner) that turns the object array of the       *)
(* target into a snapshot keyed by qualified path.                         *)
(***************************************************************************)
EXTENDS Integers, Sequences, FiniteSets, TLC

(***************************************************************************)
(* Part 1.  Mem / MemCache / ExternalPtr  (dumper/src/containers.rs)       *)
(***************************************************************************)

\* const PAGE_SIZE: usize = 0x1000
PAGE_SIZE == 4096

\* bounds of the cache model
NumThreads == 2
MaxCalls == 2

Threads == 1..NumThreads

\* the pointers the callers hold: null, and one byte before a page boundary
Addresses == {0, PAGE_SIZE - 1}
\* size_of::<T>() of the values read through a pointer
ValueSizes == {2}
\* count * size_of::<T>() of the vectors read through a pointer
VecSizes == {0, PAGE_SIZE + 2}

\* value of a buffer byte the callee has not written yet
Unwritten == 256

VARIABLES
    target,     \* bytes of the target process that differ from BaseByte
    pages,      \* MemCache.pages: page base -> the Vec<u8> fetched for it
    lock,       \* the threads holding the MutexGuard of pages, {} when free
    pc,         \* per thread: "idle", "lock", "loop", "done"
    req,        \* per thread: the call in progress [kind, address, len]
    buf,        \* per thread: the caller's buffer, as the slice copies made into it
    remaining,  \* per thread: local of read_buf
    cur,        \* per thread: local of read_buf
    ret,        \* per thread: what the last call returned
    innerOk,    \* history: page base -> successful inner.read_buf calls
    memCalls,   \* history: number of Mem::read_buf calls entered
    hits,       \* history, per thread: loop iterations of the call served from the map
    calls       \* number of pointer reads started so far

cacheVars == <<target, pages, lock, pc, req, buf, remaining, cur, ret,
               innerOk, memCalls, hits, calls>>


\* bound of the walker model: objects of the target besides the three classes
NumObjects == 3

VARIABLES
    heap,       \* the target's objects: address -> [name, outer, class, ccf]
    items,      \* the object array: items[i + 1] is the object pointer of item i
    i,          \* the loop index of dump_inner
    objects,    \* BTreeMap<String, ObjectType>
    child_map,  \* HashMap<String, BTreeSet<String>>
    result,     \* "running", "ok", "err" (an Err was returned) or "panic"
    emitted     \* history: object address -> the (path, object) inserted for it

dumpVars == <<heap, items, i, objects, child_map, result, emitted>>

VARIABLES
    carg,       \* the container decoder called and what it is called on
    cret        \* what the decoder returned, <<>> before it has

containerVars == <<carg, cret>>

VARIABLES
    parg,       \* the property reader called and what it is called on
    pret        \* what the property reader returned, <<>> before it has

propVars == <<parg, pret>>

vars == <<cacheVars, dumpVars, containerVars, propVars>>

\* the variables the cache, and the walker, leave alone
besidesCache == <<dumpVars, containerVars, propVars>>
besidesDump == <<cacheVars, containerVars, propVars>>
besidesContainers == <<cacheVars, dumpVars, propVars>>
besidesProps == <<cacheVars, dumpVars, containerVars>>

\* no decoder has been called
NoCall == [op |-> "none"]
IdleContainers == carg = NoCall /\ cret = <<>>
IdleProps == parg = NoCall /\ pret = <<>>

\* the walker has not been started
IdleDump ==
    /\ heap = <<>>
    /\ items = <<>>
    /\ i = 0
    /\ objects = <<>>
    /\ child_map = <<>>
    /\ result = "idle"
    /\ emitted = <<>>

\* content of the target's memory before the target writes anything
BaseByte(a) == (a + 7 * (a \div PAGE_SIZE)) % 256

\* the byte at address a of a memory whose written bytes are mem
MemByteIn(mem, a) == IF a \in DOMAIN mem THEN mem[a] ELSE BaseByte(a)

\* the byte the wrapped reader sees at address a now
MemByte(a) == MemByteIn(target, a)

\* A byte vector filled by one read of the wrapped reader is kept as the read
\* that filled it: len bytes from address `from` of the memory `mem`.
\* inner.read_buf(address, buf) on success
inner_read_buf(address, len) == [from |-> address, len |-> len, mem |-> target]

\* page[j], 0-based; indexing outside the vector is a panic in Rust
OutOfRange == 257
SliceByte(page, j) ==
    IF j < 0 \/ j >= page.len THEN OutOfRange ELSE MemByteIn(page.mem, page.from + j)

\* The caller's buffer is kept as the list of slice copies made into it.
\* buf[cur..cur + to_copy].copy_from_slice(&page[page_offset..page_offset + to_copy])
copy_from_slice(b, c, n, page, off) ==
    Append(b, [at |-> c, n |-> n, page |-> page, off |-> off])

\* buf[x], 0-based: the byte of the last of the first k copies that covers x
RECURSIVE BufByteUpTo(_, _, _)
BufByteUpTo(b, k, x) ==
    IF k = 0 THEN Unwritten
    ELSE IF b[k].at <= x /\ x < b[k].at + b[k].n
         THEN SliceByte(b[k].page, b[k].off + (x - b[k].at))
         ELSE BufByteUpTo(b, k - 1, x)
BufByte(b, x) == BufByteUpTo(b, Len(b), x)

\* (address + cur) & !(PAGE_SIZE - 1): PAGE_SIZE is a power of two, the mask
\* clears the low bits
page_start(t) == (req[t].address + cur[t]) - ((req[t].address + cur[t]) % PAGE_SIZE)
\* fault: every slice is taken from the start of the page
page_offset_ignored(t) == 0
page_offset(t) == (req[t].address + cur[t]) - page_start(t)
Min(a, b) == IF a < b THEN a ELSE b
to_copy(t) == Min(remaining[t], PAGE_SIZE - page_offset(t))

\* fault: the map is never consulted
cache_hit_never(t) == FALSE
\* lock.get(&page_start) is Some
cache_hit(t) == page_start(t) \in DOMAIN pages

\* lock.insert(page_start, page)
insert(m, k, v) == (k :> v) @@ m

Count(f, k) == IF k \in DOMAIN f THEN f[k] ELSE 0
Bump(f, k) == (k :> (Count(f, k) + 1)) @@ f

\* fault: read_opt without its null test
is_null_never(address) == FALSE
ExternalPtr_is_null(address) == address = 0

\* a thread that is not inside a pointer read
NoReq == [kind |-> "none", address |-> 0, len |-> 0]

InitCache ==
    /\ target = <<>>
    /\ pages = <<>>
    /\ lock = {}
    /\ pc = [t \in Threads |-> "idle"]
    /\ req = [t \in Threads |-> NoReq]
    /\ buf = [t \in Threads |-> <<>>]
    /\ remaining = [t \in Threads |-> 0]
    /\ cur = [t \in Threads |-> 0]
    /\ ret = [t \in Threads |-> "Unset"]
    /\ innerOk = <<>>
    /\ memCalls = 0
    /\ hits = [t \in Threads |-> 0]
    /\ calls = 0
    /\ IdleDump
    /\ IdleContainers
    /\ IdleProps

\* Mem::read / Mem::read_vec on a MemCache: allocate the buffer of n bytes and enter
\* read_buf (remaining = buf.len(), cur = 0), up to the lock() call
enter_read_buf(t, kind, a, n) ==
    /\ req' = [req EXCEPT ![t] = [kind |-> kind, address |-> a, len |-> n]]
    /\ buf' = [buf EXCEPT ![t] = <<>>]
    /\ remaining' = [remaining EXCEPT ![t] = n]
    /\ cur' = [cur EXCEPT ![t] = 0]
    /\ memCalls' = memCalls + 1
    /\ hits' = [hits EXCEPT ![t] = 0]
    /\ ret' = [ret EXCEPT ![t] = "Unset"]
    /\ pc' = [pc EXCEPT ![t] = "lock"]

\* ExternalPtr::read: mem.read(self.address), whatever the address
ExternalPtr_read(t) ==
    /\ pc[t] = "idle"
    /\ calls < MaxCalls
    /\ calls' = calls + 1
    /\ \E a \in Addresses, n \in ValueSizes : enter_read_buf(t, "read", a, n)
    /\ UNCHANGED <<target, pages, lock, innerOk>>
    /\ UNCHANGED besidesCache

\* ExternalPtr::read_vec: mem.read_vec(self.address, count)
ExternalPtr_read_vec(t) ==
    /\ pc[t] = "idle"
    /\ calls < MaxCalls
    /\ calls' = calls + 1
    /\ \E a \in Addresses, n \in VecSizes : enter_read_buf(t, "read_vec", a, n)
    /\ UNCHANGED <<target, pages, lock, innerOk>>
    /\ UNCHANGED besidesCache

\* ExternalPtr::read_opt: None for a null pointer, else Some(mem.read(address)?)
ExternalPtr_read_opt(t) ==
    /\ pc[t] = "idle"
    /\ calls < MaxCalls
    /\ calls' = calls + 1
    /\ \E a \in Addresses, n \in ValueSizes :
        IF ExternalPtr_is_null(a)
        THEN /\ req' = [req EXCEPT ![t] = [kind |-> "read_opt", address |-> a, len |-> n]]
             /\ ret' = [ret EXCEPT ![t] = "None"]
             /\ pc' = [pc EXCEPT ![t] = "done"]
             /\ buf' = [buf EXCEPT ![t] = <<>>]
             /\ UNCHANGED <<remaining, cur, memCalls, hits>>
        ELSE enter_read_buf(t, "read_opt", a, n)
    /\ UNCHANGED <<target, pages, lock, innerOk>>
    /\ UNCHANGED besidesCache

\* let mut lock = self.pages.lock().unwrap(): blocks while another call holds it
read_buf_lock(t) ==
    /\ pc[t] = "lock"
    /\ lock = {}
    /\ lock' = lock \cup {t}
    /\ pc' = [pc EXCEPT ![t] = "loop"]
    /\ UNCHANGED <<target, pages, req, buf, remaining, cur, ret, innerOk, memCalls, hits, calls>>
    /\ UNCHANGED besidesCache

\* one iteration of the while loop, page found in the map
read_buf_hit(t) ==
    /\ pc[t] = "loop"
    /\ remaining[t] > 0
    /\ cache_hit(t)
    /\ buf' = [buf EXCEPT ![t] =
                 copy_from_slice(@, cur[t], to_copy(t), pages[page_start(t)], page_offset(t))]
    /\ remaining' = [remaining EXCEPT ![t] = @ - to_copy(t)]
    /\ cur' = [cur EXCEPT ![t] = @ + to_copy(t)]
    /\ hits' = [hits EXCEPT ![t] = @ + 1]
    /\ UNCHANGED <<target, pages, lock, pc, req, ret, innerOk, memCalls, calls>>
    /\ UNCHANGED besidesCache

\* fault: the fetched page is copied from and dropped
read_buf_fetch_uncached(t) ==
    /\ pc[t] = "loop"
    /\ remaining[t] > 0
    /\ ~cache_hit(t)
    /\ buf' = [buf EXCEPT ![t] =
                 copy_from_slice(@, cur[t], to_copy(t),
                                 inner_read_buf(page_start(t), PAGE_SIZE), page_offset(t))]
    /\ innerOk' = Bump(innerOk, page_start(t))
    /\ remaining' = [remaining EXCEPT ![t] = @ - to_copy(t)]
    /\ cur' = [cur EXCEPT ![t] = @ + to_copy(t)]
    /\ UNCHANGED <<target, pages, lock, pc, req, ret,  memCalls, hits, calls>>
    /\ UNCHANGED besidesCache
\* one iteration of the while loop, page missing and the wrapped read succeeds
read_buf_fetch(t) ==
    /\ pc[t] = "loop"
    /\ remaining[t] > 0
    /\ ~cache_hit(t)
    /\ LET page == inner_read_buf(page_start(t), PAGE_SIZE) IN
        /\ buf' = [buf EXCEPT ![t] =
                     copy_from_slice(@, cur[t], to_copy(t), page, page_offset(t))]
        /\ pages' = insert(pages, page_start(t), page)
    /\ innerOk' = Bump(innerOk, page_start(t))
    /\ remaining' = [remaining EXCEPT ![t] = @ - to_copy(t)]
    /\ cur' = [cur EXCEPT ![t] = @ + to_copy(t)]
    /\ UNCHANGED <<target, lock, pc, req, ret,  memCalls, hits, calls>>
    /\ UNCHANGED besidesCache

\* fault: the buffer of the failed read is stored in the map all the same
read_buf_fail_caching(t) ==
    /\ pc[t] = "loop"
    /\ remaining[t] > 0
    /\ ~cache_hit(t)
    /\ pages' = insert(pages, page_start(t), inner_read_buf(page_start(t), PAGE_SIZE))
    /\ ret' = [ret EXCEPT ![t] = "Err"]
    /\ lock' = lock \ {t}
    /\ pc' = [pc EXCEPT ![t] = "done"]
    /\ UNCHANGED <<target, req, buf, remaining, cur, innerOk, memCalls, hits, calls>>
    /\ UNCHANGED besidesCache

\* fault: the error path returns with the mutex still held
read_buf_fail_leaking(t) ==
    /\ pc[t] = "loop"
    /\ remaining[t] > 0
    /\ ~cache_hit(t)
    /\ ret' = [ret EXCEPT ![t] = "Err"]
    /\ pc' = [pc EXCEPT ![t] = "done"]
    /\ UNCHANGED <<target, pages, lock, req, buf, remaining, cur, innerOk, memCalls, hits, calls>>
    /\ UNCHANGED besidesCache

\* one iteration of the while loop, page missing and the wrapped read fails:
\* `?` returns the error, the guard is dropped on the way out
read_buf_fail(t) ==
    /\ pc[t] = "loop"
    /\ remaining[t] > 0
    /\ ~cache_hit(t)
    /\ ret' = [ret EXCEPT ![t] = "Err"]
    /\ lock' = lock \ {t}
    /\ pc' = [pc EXCEPT ![t] = "done"]
    /\ UNCHANGED <<target, pages, req, buf, remaining, cur, innerOk, memCalls, hits, calls>>
    /\ UNCHANGED besidesCache

\* remaining == 0: Ok(()), the guard is dropped
read_buf_return(t) ==
    /\ pc[t] = "loop"
    /\ remaining[t] = 0
    /\ ret' = [ret EXCEPT ![t] = IF req[t].kind = "read_opt" THEN "Some" ELSE "Ok"]
    /\ lock' = lock \ {t}
    /\ pc' = [pc EXCEPT ![t] = "done"]
    /\ UNCHANGED <<target, pages, req, buf, remaining, cur, innerOk, memCalls, hits, calls>>
    /\ UNCHANGED besidesCache

\* the caller takes the result; the buffer and the locals of the call are gone
caller_continue(t) ==
    /\ pc[t] = "done"
    /\ pc' = [pc EXCEPT ![t] = "idle"]
    /\ req' = [req EXCEPT ![t] = NoReq]
    /\ buf' = [buf EXCEPT ![t] = <<>>]
    /\ remaining' = [remaining EXCEPT ![t] = 0]
    /\ cur' = [cur EXCEPT ![t] = 0]
    /\ ret' = [ret EXCEPT ![t] = "Unset"]
    /\ hits' = [hits EXCEPT ![t] = 0]
    /\ UNCHANGED <<target, pages, lock, innerOk, memCalls, calls>>
    /\ UNCHANGED besidesCache

NextCache ==
    \E t \in Threads :
        \/ ExternalPtr_read(t)
        \/ ExternalPtr_read_opt(t)
        \/ ExternalPtr_read_vec(t)
        \/ read_buf_lock(t)
        \/ read_buf_hit(t)
        \/ read_buf_fetch(t)
        \/ read_buf_fail(t)
        \/ read_buf_return(t)
        \/ caller_continue(t)

SpecCache == InitCache /\ [][NextCache]_vars

\* the target process is alive: it writes to its memory while it is read
MaxWrites == 1
WriteAddresses == {PAGE_SIZE - 1, PAGE_SIZE}
target_write ==
    /\ Cardinality(DOMAIN target) < MaxWrites
    /\ \E a \in WriteAddresses \ DOMAIN target :
          target' = (a :> ((BaseByte(a) + 1) % 256)) @@ target
    /\ UNCHANGED <<pages, lock, pc, req, buf, remaining, cur, ret, innerOk, memCalls, hits,
                   calls>>
    /\ UNCHANGED besidesCache

\* one reader of the live target
LiveThreads == {1}

NextLive ==
    \/ \E t \in LiveThreads :
        \/ ExternalPtr_read(t)
        \/ ExternalPtr_read_opt(t)
        \/ ExternalPtr_read_vec(t)
        \/ read_buf_lock(t)
        \/ read_buf_hit(t)
        \/ read_buf_fetch(t)
        \/ read_buf_fail(t)
        \/ read_buf_return(t)
        \/ caller_continue(t)
    \/ target_write

SpecLive == InitCache /\ [][NextLive]_vars

\* every thread keeps running, and every wrapped read returns
FairSpecCache ==
    /\ SpecCache
    /\ \A t \in Threads :
        WF_vars(read_buf_lock(t) \/ read_buf_hit(t) \/ read_buf_fetch(t)
                \/ read_buf_fail(t) \/ read_buf_return(t))

TypeOKCache ==
    /\ lock \subseteq Threads
    /\ \A t \in Threads : pc[t] \in {"idle", "lock", "loop", "done"}
    /\ \A t \in Threads : ret[t] \in {"Unset", "None", "Some", "Ok", "Err"}

(***************************************************************************)
(* Part 2.  read_path and dump_inner  (dumper/src/lib.rs)                  *)
(*                                                                         *)
(* The target's object graph is kept as typed records, one per object, at  *)
(* small addresses; a read of a field fails when the object's address is   *)
(* not mapped.  The objects here have no property chain, no super struct   *)
(* and no class default object, so the reads of those fields return null.  *)
(***************************************************************************)

\* strings are sequences of characters
Script_prefix == <<"/", "S", "c", "r", "i", "p", "t", "/">>

\* the entries of the name pool, by ComparisonIndex
NamePool == <<
    <<"/", "S", "c", "r", "i", "p", "t", "/", "E", "n", "g", "i", "n", "e">>,
    <<"/", "S", "c", "r", "i", "p", "t", "s">>,
    <<"A", "c", "t", "o", "r">>,
    <<"R", "o", "o", "t", "C", "o", "m", "p", "o", "n", "e", "n", "t">>,
    <<"C", "l", "a", "s", "s">>,
    <<"P", "a", "c", "k", "a", "g", "e">>,
    <<"O", "b", "j", "e", "c", "t">> >>

\* FName.Number of the names in the target: 0 is "no suffix", n is suffix _(n-1)
Numbers == {0, 1}

\* EClassCastFlags, as the set of the flags that are set
CASTCLASS_UField == "UField"
CASTCLASS_UStruct == "UStruct"
CASTCLASS_UClass == "UClass"
CASTCLASS_UFunction == "UFunction"
CASTCLASS_UScriptStruct == "UScriptStruct"
CASTCLASS_UEnum == "UEnum"
CASTCLASS_UPackage == "UPackage"
CastFlags == {CASTCLASS_UField, CASTCLASS_UStruct, CASTCLASS_UClass, CASTCLASS_UFunction,
              CASTCLASS_UScriptStruct, CASTCLASS_UEnum, CASTCLASS_UPackage}

\* Result<T> and Option<T>
Err == [ok |-> FALSE]
Ok(v) == [ok |-> TRUE, val |-> v]
None == <<>>
Some(v) == <<v>>

\* the ? operator: an error is returned at once, a value is passed on
Try(r, K(_)) == IF r.ok THEN K(r.val) ELSE Err

\* addresses: 0 is null, 1..NumObjects the objects, then the classes Class,
\* Package and Object, then an address that is not mapped
ObjectAddrs == 1..NumObjects
UClassClass == NumObjects + 1
UPackageClass == NumObjects + 2
UObjectClass == NumObjects + 3
Unmapped == NumObjects + 4

FNameOf(index, number) == [ComparisonIndex |-> index, Number |-> number]

\* the three class objects; flags are the cast flags of the class Object
ClassTable(flags) ==
    (UClassClass :> [name |-> FNameOf(5, 0), outer |-> 0, class |-> UClassClass, super |-> 0,
                     ccf |-> {CASTCLASS_UField, CASTCLASS_UStruct, CASTCLASS_UClass}])
    @@ (UPackageClass :> [name |-> FNameOf(6, 0), outer |-> 0, class |-> UClassClass,
                          super |-> 0, ccf |-> {CASTCLASS_UPackage}])
    @@ (UObjectClass :> [name |-> FNameOf(7, 0), outer |-> 0, class |-> UClassClass,
                         super |-> 0, ccf |-> flags])

\* an object without outer: a package name, of class Class or Package
RootOptions ==
    {[name |-> FNameOf(n, 0), outer |-> 0, class |-> c, super |-> 0, ccf |-> {}] :
        n \in {1, 2}, c \in {UClassClass, UPackageClass}}

\* object o inside the first or the previous object, so outer chains end
ChildOptions(o) ==
    {[name |-> FNameOf(n[1], n[2]), outer |-> p, class |-> c, super |-> 0, ccf |-> {}] :
        n \in {3, 4} \X Numbers, p \in {1, o - 1} \cap (1..(o - 1)),
        c \in {UClassClass, UPackageClass}}

RECURSIVE ObjectTables(_)
ObjectTables(n) ==
    IF n = 0 THEN {<<>>}
    ELSE {Append(h, r) : h \in ObjectTables(n - 1), r \in RootOptions \cup ChildOptions(n)}

\* the engine keeps (outer, name index, number) unique
UniqueNames(h) ==
    \A a, b \in DOMAIN h : a # b => <<h[a].outer, h[a].name>> # <<h[b].outer, h[b].name>>

\* graphs of varied shape and names, the class Object without cast flags
ShapeHeaps ==
    {h @@ ClassTable({}) : h \in {t \in ObjectTables(NumObjects) : UniqueNames(t)}}

\* one chain /Script/Engine, Actor, RootComponent, ... of objects of class
\* Object, for every set of cast flags of that class
ChainTable ==
    [o \in ObjectAddrs |->
        [name |-> FNameOf(IF o = 1 THEN 1 ELSE 3 + ((o + 1) % 2), 0),
         outer |-> o - 1, class |-> UObjectClass, super |-> 0, ccf |-> {}]]
FlagHeaps == {ChainTable @@ ClassTable(f) : f \in SUBSET CastFlags}

\* the package /Script/Engine and classes in it, each without super struct or
\* derived from the second class, from the last class, or from the class
\* Object, which is no item of the object array
SuperOptions == {0, 2, NumObjects, UObjectClass}
SuperTable(sup) ==
    [o \in ObjectAddrs |->
        IF o = 1
        THEN [name |-> FNameOf(1, 0), outer |-> 0, class |-> UPackageClass, super |-> 0,
              ccf |-> {}]
        ELSE [name |-> FNameOf(3 + (o % 2), 0), outer |-> 1, class |-> UClassClass,
              super |-> sup[o], ccf |-> {}]]
SuperHeaps == {SuperTable(sup) @@ ClassTable({}) : sup \in [ObjectAddrs -> SuperOptions]}

Heaps == ShapeHeaps \cup FlagHeaps \cup SuperHeaps

\* the object array: the objects in order, in reverse order, without the
\* first object, with a null item, with a pointer to unmapped memory
InOrder == [k \in ObjectAddrs |-> k]
ItemArrays ==
    {InOrder,
     [k \in ObjectAddrs |-> NumObjects + 1 - k],
     Tail(InOrder),
     <<0>> \o InOrder,
     Append(InOrder, Unmapped)}

Mapped(p) == p \in DOMAIN heap

\* obj.outer_private().read(): Option<ExternalPtr<UObject>>
outer_private_read(obj) ==
    IF ~Mapped(obj) THEN Err
    ELSE Ok(IF heap[obj].outer = 0 THEN None ELSE Some(heap[obj].outer))

\* obj.class_private().read()
class_private_read(obj) == IF ~Mapped(obj) THEN Err ELSE Ok(heap[obj].class)

\* class.class_cast_flags().read()
class_cast_flags_read(class) == IF ~Mapped(class) THEN Err ELSE Ok(heap[class].ccf)

\* PtrFNamePool::read: the entry is found from name.ComparisonIndex alone,
\* name.Number is not used
PtrFNamePool_read(name) ==
    IF name.ComparisonIndex \in DOMAIN NamePool THEN Ok(NamePool[name.ComparisonIndex]) ELSE Err

\* obj.name_private().read()
name_private_read(obj) == IF ~Mapped(obj) THEN Err ELSE PtrFNamePool_read(heap[obj].name)

\* read_path, first loop: objects = [obj, outer(obj), outer(outer(obj)), ...]
RECURSIVE walk_outers(_, _)
walk_outers(objs, obj) ==
    Try(outer_private_read(obj), LAMBDA outer :
        IF outer = None THEN Ok(objs)
        ELSE walk_outers(Append(objs, outer[1]), outer[1]))

\* fault: the separator tests the class flag instead of the package flag
separator_class_flag(prev) ==
    Try(class_private_read(prev), LAMBDA class :
    Try(class_cast_flags_read(class), LAMBDA f :
        Ok(IF CASTCLASS_UClass \in f THEN "." ELSE ":")))
\* read_path, the separator pushed after the element prev
separator(prev) ==
    Try(class_private_read(prev), LAMBDA class :
    Try(class_cast_flags_read(class), LAMBDA f :
        Ok(IF CASTCLASS_UPackage \in f THEN "." ELSE ":")))

\* read_path: if let Some(prev) = prev { path.push(sep) }
push_sep(path, prev) ==
    IF prev = None THEN Ok(path)
    ELSE Try(separator(prev[1]), LAMBDA sep : Ok(Append(path, sep)))

\* read_path, second loop: for obj in objects.iter().rev(), k counting down
RECURSIVE push_names(_, _, _, _)
push_names(objs, k, path, prev) ==
    IF k = 0 THEN Ok(path)
    ELSE Try(push_sep(path, prev), LAMBDA pushed :
         Try(name_private_read(objs[k]), LAMBDA name :
             push_names(objs, k - 1, pushed \o name, Some(objs[k]))))

read_path(obj) ==
    Try(walk_outers(<<obj>>, obj), LAMBDA objs :
        push_names(objs, Len(objs), <<>>, None))

\* obj.path(), for a pointer to any object type
path_of(obj) == read_path(obj)

\* fault: the filter lets every path through
starts_with_anything(s, prefix) == TRUE
\* str::starts_with
starts_with(s, prefix) ==
    /\ Len(s) >= Len(prefix)
    /\ \A k \in 1..Len(prefix) : s[k] = prefix[k]

\* fault: the package test comes first
classify_package_first(f) ==
    IF CASTCLASS_UPackage \in f THEN "Package"
    ELSE IF CASTCLASS_UClass \in f THEN "Class"
    ELSE IF CASTCLASS_UFunction \in f THEN "Function"
    ELSE IF CASTCLASS_UScriptStruct \in f THEN "ScriptStruct"
    ELSE IF CASTCLASS_UEnum \in f THEN "Enum"
    ELSE "Object"
\* the if / else if chain of dump_inner: which ObjectType is built
classify(f) ==
    IF CASTCLASS_UClass \in f THEN "Class"
    ELSE IF CASTCLASS_UFunction \in f THEN "Function"
    ELSE IF CASTCLASS_UScriptStruct \in f THEN "ScriptStruct"
    ELSE IF CASTCLASS_UEnum \in f THEN "Enum"
    ELSE IF CASTCLASS_UPackage \in f THEN "Package"
    ELSE "Object"

\* outer_private().read()?.map(|s| s.path()).transpose()
outer_path(o) ==
    IF o = None THEN Ok(None)
    ELSE Try(path_of(o[1]), LAMBDA p : Ok(Some(p)))

\* read_object: outer path, class path, no children yet
read_object(obj) ==
    Try(outer_private_read(obj), LAMBDA o :
    Try(outer_path(o), LAMBDA outer :
    Try(class_private_read(obj), LAMBDA class :
    Try(path_of(class), LAMBDA class_name :
        Ok([outer |-> outer, class |-> class_name, children |-> {}])))))

\* fault: the outer is taken for the super struct
super_struct_read_outer(obj) ==
    IF ~Mapped(obj) THEN Err
    ELSE Ok(IF heap[obj].outer = 0 THEN None ELSE Some(heap[obj].outer))
\* obj.super_struct().read(): Option<ExternalPtr<UStruct>>
super_struct_read(obj) ==
    IF ~Mapped(obj) THEN Err
    ELSE Ok(IF heap[obj].super = 0 THEN None ELSE Some(heap[obj].super))

\* read_struct: the path of the super struct, then read_object
read_struct(obj) ==
    Try(super_struct_read(obj), LAMBDA s :
    Try(outer_path(s), LAMBDA super_struct :
    Try(read_object(obj), LAMBDA object :
        Ok([outer |-> object.outer, class |-> object.class,
            children |-> object.children, super_struct |-> super_struct]))))

\* the kinds built on read_struct: read_class, the Function arm and
\* read_script_struct
StructKinds == {"Class", "Function", "ScriptStruct"}

\* read_class, read_script_struct and the Function arm wrap read_struct;
\* read_enum and the Package and Object arms wrap read_object
read_as(kind, obj) ==
    IF kind \in StructKinds
    THEN Try(read_struct(obj), LAMBDA struct :
             Ok([kind |-> kind, outer |-> struct.outer, class |-> struct.class,
                 children |-> struct.children, super_struct |-> struct.super_struct]))
    ELSE Try(read_object(obj), LAMBDA object :
             Ok([kind |-> kind, outer |-> object.outer, class |-> object.class,
                 children |-> object.children]))

\* the body of the for loop of dump_inner for one object pointer: an error,
\* None when the object is skipped (continue), or the entry to insert
loop_body(obj) ==
    IF obj = 0 THEN Ok(None)
    ELSE Try(class_private_read(obj), LAMBDA class :
         Try(path_of(obj), LAMBDA path :
             IF ~starts_with(path, Script_prefix) THEN Ok(None)
             ELSE Try(class_cast_flags_read(class), LAMBDA f :
                  Try(read_as(classify(f), obj), LAMBDA object :
                      Ok(Some([path |-> path, object |-> object]))))))

\* fault: the entry of the outer is overwritten with the one child
child_map_replace(m, outer, path) == (outer :> {path}) @@ m
\* child_map.entry(outer).or_default().insert(path)
child_map_insert(m, outer, path) ==
    (outer :> ((IF outer \in DOMAIN m THEN m[outer] ELSE {}) \cup {path})) @@ m

\* uobject_array.obj_object().num_elements().read()
num_elements == Len(items)

IdleCache ==
    /\ target = <<>>
    /\ pages = <<>>
    /\ lock = {}
    /\ pc = [t \in Threads |-> "idle"]
    /\ req = [t \in Threads |-> NoReq]
    /\ buf = [t \in Threads |-> <<>>]
    /\ remaining = [t \in Threads |-> 0]
    /\ cur = [t \in Threads |-> 0]
    /\ ret = [t \in Threads |-> "Unset"]
    /\ innerOk = <<>>
    /\ memCalls = 0
    /\ hits = [t \in Threads |-> 0]
    /\ calls = 0

\* dump_inner up to the for loop: both maps empty
InitDump ==
    /\ IdleCache
    /\ IdleContainers
    /\ IdleProps
    /\ heap \in Heaps
    /\ items \in ItemArrays
    /\ i = 0
    /\ objects = <<>>
    /\ child_map = <<>>
    /\ result = "running"
    /\ emitted = <<>>

\* fault: an object whose reads fail is skipped
loop_outcome_skipping(obj, out) ==
    \/ /\ ~out.ok
       /\ i' = i + 1
       /\ UNCHANGED <<objects, child_map, result, emitted>>
    \/ /\ out.ok
       /\ out.val = None
       /\ i' = i + 1
       /\ UNCHANGED <<objects, child_map, result, emitted>>
    \/ /\ out.ok
       /\ out.val # None
       /\ child_map' = IF out.val[1].object.outer = None THEN child_map
                       ELSE child_map_insert(child_map, out.val[1].object.outer[1],
                                             out.val[1].path)
       /\ objects' = (out.val[1].path :> out.val[1].object) @@ objects
       /\ emitted' = (obj :> out.val[1]) @@ emitted
       /\ i' = i + 1
       /\ UNCHANGED result
\* what the loop does with the outcome of its body for the object obj
loop_outcome(obj, out) ==
    \/ /\ ~out.ok
       /\ result' = "err"
       /\ UNCHANGED <<i, objects, child_map, emitted>>
    \/ /\ out.ok
       /\ out.val = None
       /\ i' = i + 1
       /\ UNCHANGED <<objects, child_map, result, emitted>>
    \/ /\ out.ok
       /\ out.val # None
       /\ child_map' = IF out.val[1].object.outer = None THEN child_map
                       ELSE child_map_insert(child_map, out.val[1].object.outer[1],
                                             out.val[1].path)
       /\ objects' = (out.val[1].path :> out.val[1].object) @@ objects
       /\ emitted' = (obj :> out.val[1]) @@ emitted
       /\ i' = i + 1
       /\ UNCHANGED result

\* one iteration of the for loop
dump_iteration ==
    /\ result = "running"
    /\ i < num_elements
    /\ loop_outcome(items[i + 1], loop_body(items[i + 1]))
    /\ UNCHANGED <<heap, items>>
    /\ UNCHANGED besidesDump

\* after the loop: every outer of child_map gets its children; the unwrap
\* panics when the outer has no entry
dump_finish ==
    /\ result = "running"
    /\ i = num_elements
    /\ IF \E outer \in DOMAIN child_map : outer \notin DOMAIN objects
       THEN /\ result' = "panic"
            /\ UNCHANGED objects
       ELSE /\ objects' = [p \in DOMAIN objects |->
                             IF p \in DOMAIN child_map
                             THEN [objects[p] EXCEPT !.children = child_map[p]]
                             ELSE objects[p]]
            /\ result' = "ok"
    /\ UNCHANGED <<heap, items, i, child_map, emitted>>
    /\ UNCHANGED besidesDump

NextDump == dump_iteration \/ dump_finish

SpecDump == InitDump /\ [][NextDump]_vars

TypeOKDump ==
    /\ result \in {"idle", "running", "ok", "err", "panic"}
    /\ i \in 0..num_elements

(***************************************************************************)
(* Part 3.  Decoders of the target's containers  (dumper/src/containers.rs)*)
(*                                                                         *)
(* A target memory is a function from the mapped addresses to bytes; the   *)
(* memory a decoder runs on is laid out from the parameters of the call,   *)
(* and the decoder reads it back byte by byte.                             *)
(***************************************************************************)

\* Mem::read_buf on a target memory m: every byte of the range is mapped
read_bytes(m, address, count) ==
    IF \A k \in 0..(count - 1) : (address + k) \in DOMAIN m
    THEN Ok([k \in 1..count |-> m[address + k - 1]])
    ELSE Err

\* transmute of little-endian bytes to an unsigned integer or a pointer
RECURSIVE le_value(_)
le_value(b) == IF b = <<>> THEN 0 ELSE b[1] + 256 * le_value(Tail(b))

\* Mem::read::<T> for an integer or pointer T of size bytes
Mem_read(m, address, size) ==
    Try(read_bytes(m, address, size), LAMBDA b : Ok(le_value(b)))

\* Mem::read_vec::<T>: count values of size bytes each
Mem_read_vec(m, address, count, size) ==
    Try(read_bytes(m, address, count * size), LAMBDA b :
        Ok([k \in 1..count |-> le_value(SubSeq(b, (k - 1) * size + 1, k * size))]))

\* String::from_utf16: code units to code points, Err on a lone surrogate
IsHighSurrogate(u) == u \in 55296..56319
IsLowSurrogate(u) == u \in 56320..57343
\* the positions of S in increasing order
Ascending(S) ==
    [j \in 1..Cardinality(S) |-> CHOOSE k \in S : Cardinality({x \in S : x <= k}) = j]

\* a code point starts at every unit that is not a low surrogate; a high
\* surrogate needs a low one after it, a low surrogate a high one before it
utf16_well_formed(u) ==
    \A k \in 1..Len(u) :
        /\ IsHighSurrogate(u[k]) => (k < Len(u) /\ IsLowSurrogate(u[k + 1]))
        /\ IsLowSurrogate(u[k]) => (k > 1 /\ IsHighSurrogate(u[k - 1]))
utf16_point(u, k) ==
    IF IsHighSurrogate(u[k]) THEN 65536 + ((u[k] - 55296) * 1024) + (u[k + 1] - 56320)
    ELSE u[k]
utf16_points(u, starts) == [j \in 1..Len(starts) |-> utf16_point(u, starts[j])]
from_utf16(u) ==
    IF utf16_well_formed(u)
    THEN Ok(utf16_points(u, Ascending({k \in 1..Len(u) : ~IsLowSurrogate(u[k])})))
    ELSE Err

\* String::from_utf8: the length of the sequence starting at b[k], 0 when
\* it is not a well-formed one, and the code point it encodes
IsContinuation(x) == x \in 128..191
utf8_width(b, k) ==
    IF b[k] < 128 THEN 1
    ELSE IF b[k] \in 194..223 /\ Len(b) >= k + 1 /\ IsContinuation(b[k + 1]) THEN 2
    ELSE IF /\ b[k] \in 224..239
            /\ Len(b) >= k + 2
            /\ b[k + 1] \in (IF b[k] = 224 THEN 160..191
                             ELSE IF b[k] = 237 THEN 128..159 ELSE 128..191)
            /\ IsContinuation(b[k + 2]) THEN 3
    ELSE IF /\ b[k] \in 240..244
            /\ Len(b) >= k + 3
            /\ b[k + 1] \in (IF b[k] = 240 THEN 144..191
                             ELSE IF b[k] = 244 THEN 128..143 ELSE 128..191)
            /\ IsContinuation(b[k + 2])
            /\ IsContinuation(b[k + 3]) THEN 4
    ELSE 0
utf8_point(b, k, w) ==
    IF w = 1 THEN b[k]
    ELSE IF w = 2 THEN ((b[k] - 192) * 64) + (b[k + 1] - 128)
    ELSE IF w = 3
         THEN ((b[k] - 224) * 4096) + ((b[k + 1] - 128) * 64) + (b[k + 2] - 128)
    ELSE ((b[k] - 240) * 262144) + ((b[k + 1] - 128) * 4096)
         + ((b[k + 2] - 128) * 64) + (b[k + 3] - 128)
\* a code point starts at every byte that is not a continuation byte; the
\* bytes are well formed when a sequence starts at each of those and every
\* continuation byte is inside one
utf8_starts(b) == {k \in 1..Len(b) : ~IsContinuation(b[k])}
utf8_well_formed(b) ==
    /\ \A k \in utf8_starts(b) : utf8_width(b, k) > 0
    /\ \A k \in (1..Len(b)) \ utf8_starts(b) :
           \E s \in utf8_starts(b) : s < k /\ k < s + utf8_width(b, s)
utf8_points(b, starts) ==
    [j \in 1..Len(starts) |-> utf8_point(b, starts[j], utf8_width(b, starts[j]))]
from_utf8(b) ==
    IF utf8_well_formed(b) THEN Ok(utf8_points(b, Ascending(utf8_starts(b)))) ELSE Err

\* chunks(2).map(u16::from_le_bytes)
chunks2(b) == [k \in 1..(Len(b) \div 2) |-> b[2 * k - 1] + 256 * b[2 * k]]

\* fault: the payload is read from the address of the header
payload_at_header(offset) == offset
\* the payload follows the 2-byte header: block.offset(offset + 2)
payload_offset(offset) == offset + 2

\* PtrFNamePool::read, after the header was read
read_name_payload(m, block, offset, header) ==
    IF header % 2 # 0
    THEN Try(Mem_read_vec(m, block + payload_offset(offset), (header \div 64) * 2, 1),
             LAMBDA b : from_utf16(chunks2(b)))
    ELSE Try(Mem_read_vec(m, block + payload_offset(offset), header \div 64, 1),
             from_utf8)

\* PtrFNamePool::read on the bytes of the target: pool is self.0
PtrFNamePool_read_mem(m, pool, name) ==
    Try(Mem_read(m, pool + 16 + 8 * (name.ComparisonIndex \div 65536), 8), LAMBDA block :
    Try(Mem_read_vec(m, block + (name.ComparisonIndex % 65536) * 2, 2, 1), LAMBDA header_bytes :
        read_name_payload(m, block, (name.ComparisonIndex % 65536) * 2,
                          le_value(header_bytes))))

\* how the target stores a text (a sequence of code points): UTF-8, UTF-16
encode_utf8(cp) ==
    IF cp < 128 THEN <<cp>>
    ELSE IF cp < 2048 THEN <<192 + (cp \div 64), 128 + (cp % 64)>>
    ELSE IF cp < 65536
         THEN <<224 + (cp \div 4096), 128 + ((cp \div 64) % 64), 128 + (cp % 64)>>
    ELSE <<240 + (cp \div 262144), 128 + ((cp \div 4096) % 64),
           128 + ((cp \div 64) % 64), 128 + (cp % 64)>>
encode_utf16(cp) ==
    IF cp < 65536 THEN <<cp>>
    ELSE <<55296 + ((cp - 65536) \div 1024), 56320 + ((cp - 65536) % 1024)>>
RECURSIVE Utf8Of(_)
Utf8Of(text) == IF text = <<>> THEN <<>> ELSE encode_utf8(text[1]) \o Utf8Of(Tail(text))
RECURSIVE Utf16Of(_)
Utf16Of(text) == IF text = <<>> THEN <<>> ELSE encode_utf16(text[1]) \o Utf16Of(Tail(text))

\* the bytes of an unsigned value of n bytes, of u16 units, and bytes at an address
RECURSIVE le_bytes(_, _)
le_bytes(v, n) == IF n = 0 THEN <<>> ELSE <<v % 256>> \o le_bytes(v \div 256, n - 1)
units_bytes(u) ==
    [k \in 1..(2 * Len(u)) |-> IF k % 2 = 1 THEN u[(k + 1) \div 2] % 256
                                ELSE u[k \div 2] \div 256]
place(at, bytes) == [a \in at..(at + Len(bytes) - 1) |-> bytes[a - at + 1]]

\* names of the target: empty, Actor, 63 letters, two- and three-byte
\* characters, a character outside the basic plane
Texts ==
    {<<>>, <<65, 99, 116, 111, 114>>, [k \in 1..63 |-> 97], <<233, 8364>>, <<128512, 97>>}

\* a name entry: narrow or wide, its payload in code units, what it decodes to
NameEntries ==
    {[wide |-> FALSE, payload |-> Utf8Of(t), expect |-> Ok(t)] : t \in Texts}
    \cup {[wide |-> TRUE, payload |-> Utf16Of(t), expect |-> Ok(t)] : t \in Texts}
    \cup {[wide |-> FALSE, payload |-> p, expect |-> Err] : p \in {<<97, 255>>, <<195>>}}
    \cup {[wide |-> TRUE, payload |-> p, expect |-> Err] : p \in {<<56320>>, <<97, 55296>>}}

\* where the target keeps its blocks, by block index
BlockAddress == <<1048576, 262144>>

\* the calls of PtrFNamePool::read: pool address, block index, offset of the
\* entry in 2-byte units, the five header bits between is_wide and len,
\* FName.Number, and whether the last byte of the entry is not mapped
NameCalls ==
    [op : {"PtrFNamePool::read"}, pool : {4096, 65544}, block : {0, 1},
     unit : {0, 40000}, bits : {0, 31}, number : Numbers, cut : BOOLEAN,
     entry : NameEntries]

\* the header the target wrote for the entry of the call
HeaderOf(c) ==
    (Len(c.entry.payload) * 64) + (c.bits * 2) + (IF c.entry.wide THEN 1 ELSE 0)

EntryBytes(c) ==
    le_bytes(HeaderOf(c), 2)
    \o (IF c.entry.wide THEN units_bytes(c.entry.payload) ELSE c.entry.payload)

\* the target memory of the call: the pointer of the block in the table at
\* pool + 0x10, and the entry in the block
NameTarget(c) ==
    place(c.pool + 16 + 8 * c.block, le_bytes(BlockAddress[c.block + 1], 8))
    @@ place(BlockAddress[c.block + 1] + 2 * c.unit,
             IF c.cut THEN SubSeq(EntryBytes(c), 1, Len(EntryBytes(c)) - 1)
             ELSE EntryBytes(c))

PtrFNamePool_read_call ==
    /\ carg.op = "PtrFNamePool::read"
    /\ cret = <<>>
    /\ cret' = <<PtrFNamePool_read_mem(NameTarget(carg), carg.pool,
                                       FNameOf(carg.block * 65536 + carg.unit, carg.number))>>
    /\ UNCHANGED carg
    /\ UNCHANGED besidesContainers

\* bound of the arrays of the target: max of a TArray header
MaxElements == 2

\* FlaggedPtr<T>: Remote(ExternalPtr) or Local(*const T); local is what the
\* local pointer points at, the inline_data of the allocator
Remote(address) == [kind |-> "Remote", address |-> address, local |-> <<>>]
Local(address, elements) == [kind |-> "Local", address |-> address, local |-> elements]

\* FlaggedPtr::is_null
never_null(p) == FALSE

FlaggedPtr_is_null(p) == p.address = 0

\* FlaggedPtr::read_vec of count elements of size bytes; from_raw_parts on a
\* local pointer is within the inline array for count <= Len(p.local), as
\* the allocator keeps it
FlaggedPtr_read_vec(m, p, count, size) ==
    IF FlaggedPtr_is_null(p) THEN Ok(<<>>)
    ELSE IF p.kind = "Local" THEN Ok(SubSeq(p.local, 1, count))
    ELSE Mem_read_vec(m, p.address, count, size)

\* THeapAlloc_ForElementType::data
THeapAlloc_data(alloc) == Remote(alloc.data)

\* fault: the inline region is used whenever it is there
inline_data_first(alloc) == Local(alloc.inline_ptr, alloc.inline_data)
\* TInlineAlloc_ForElementType::data
TInlineAlloc_data(alloc) ==
    IF FlaggedPtr_is_null(THeapAlloc_data(alloc.secondary_data))
    THEN Local(alloc.inline_ptr, alloc.inline_data)
    ELSE THeapAlloc_data(alloc.secondary_data)

\* TArray::read, array = [data, num, max] with the heap allocator
TArray_read(m, array, size) ==
    FlaggedPtr_read_vec(m, THeapAlloc_data(array.data), array.num, size)

\* fault: the string is cut after the first zero unit
position_after_zero(chars) ==
    IF \E k \in 1..Len(chars) : chars[k] = 0
    THEN CHOOSE k \in 1..Len(chars) : chars[k] = 0 /\ \A j \in 1..(k - 1) : chars[j] # 0
    ELSE Len(chars)
\* chars.iter().position(|c| *c == 0).unwrap_or(chars.len())
position_of_zero(chars) ==
    IF \E k \in 1..Len(chars) : chars[k] = 0
    THEN (CHOOSE k \in 1..Len(chars) : chars[k] = 0 /\ \A j \in 1..(k - 1) : chars[j] # 0) - 1
    ELSE Len(chars)

\* FString::read
FString_read(m, array) ==
    Try(TArray_read(m, array, 2), LAMBDA chars :
        from_utf16(SubSeq(chars, 1, position_of_zero(chars))))

\* element k of what the target keeps at the data pointer of an array
ElementAt(k) == 16 * k + 7

\* the calls of TArray::read: element size, data pointer, num and max of the
\* header, and how many elements are mapped at the data pointer (the max
\* allocated ones and what follows them in the target's heap)
ArrayCalls ==
    {c \in [op : {"TArray::read"}, size : {1, 2}, data : {0, 8192},
            num : 0..(MaxElements + 1), max : 0..MaxElements,
            mapped : 0..(MaxElements + 2)] : c.mapped \in {c.max, c.max + 2}}

ArrayTarget(c) ==
    IF c.data = 0 THEN <<>>
    ELSE [a \in c.data..(c.data + c.mapped * c.size - 1) |->
             IF (a - c.data) % c.size = 0 THEN ElementAt(((a - c.data) \div c.size) + 1)
             ELSE 0]

TArray_read_call ==
    /\ carg.op = "TArray::read"
    /\ cret = <<>>
    /\ cret' = <<TArray_read(ArrayTarget(carg),
                             [data |-> [data |-> carg.data], num |-> carg.num,
                              max |-> carg.max], carg.size)>>
    /\ UNCHANGED carg
    /\ UNCHANGED besidesContainers

\* where the inline_data of an allocator held locally is, and where the
\* target allocates on its heap
InlineAddress == 70000
HeapAddress == 8192

\* the values of an array of n elements
ValuesOf(n) == [k \in 1..n |-> ElementAt(k)]

\* the calls of TInlineAlloc_ForElementType::data followed by read_vec: N
\* inline slots, the values of the array, and whether the target keeps
\* them on the heap (it must when there are more than N)
InlineCalls ==
    {c \in [op : {"TInlineAlloc::data"}, N : {1, MaxElements}, size : {1, 2},
            values : {ValuesOf(n) : n \in 0..(MaxElements + 1)}, heap : BOOLEAN] :
        ~c.heap => Len(c.values) <= c.N}

\* the allocator as the reader holds it: unused inline slots hold 255
InlineAlloc(c) ==
    [inline_ptr |-> InlineAddress,
     inline_data |-> [k \in 1..c.N |-> IF ~c.heap /\ k <= Len(c.values)
                                       THEN c.values[k] ELSE 255],
     secondary_data |-> [data |-> IF c.heap THEN HeapAddress ELSE 0]]

InlineTarget(c) ==
    IF ~c.heap THEN <<>>
    ELSE [a \in HeapAddress..(HeapAddress + Len(c.values) * c.size - 1) |->
             IF (a - HeapAddress) % c.size = 0
             THEN c.values[((a - HeapAddress) \div c.size) + 1] ELSE 0]

TInlineAlloc_data_call ==
    /\ carg.op = "TInlineAlloc::data"
    /\ cret = <<>>
    /\ cret' = <<[ptr |-> TInlineAlloc_data(InlineAlloc(carg)),
                  vec |-> FlaggedPtr_read_vec(InlineTarget(carg),
                                              TInlineAlloc_data(InlineAlloc(carg)),
                                              Len(carg.values), carg.size)]>>
    /\ UNCHANGED carg
    /\ UNCHANGED besidesContainers

\* the calls of FlaggedPtr::is_null
NullCalls ==
    [op : {"FlaggedPtr::is_null"},
     ptr : {Remote(0), Remote(HeapAddress), Local(0, <<>>),
            Local(InlineAddress, ValuesOf(1))}]

FlaggedPtr_is_null_call ==
    /\ carg.op = "FlaggedPtr::is_null"
    /\ cret = <<>>
    /\ cret' = <<FlaggedPtr_is_null(carg.ptr)>>
    /\ UNCHANGED carg
    /\ UNCHANGED besidesContainers

\* strings of the target as UTF-16 units, and what they decode to: Hi with
\* and without terminator, units after the first zero, a surrogate pair, a
\* lone surrogate before and after the first zero
StringCases ==
    {[units |-> <<>>, expect |-> Ok(<<>>)],
     [units |-> <<72, 105, 0>>, expect |-> Ok(<<72, 105>>)],
     [units |-> <<72, 105>>, expect |-> Ok(<<72, 105>>)],
     [units |-> <<72, 0, 105, 0>>, expect |-> Ok(<<72>>)],
     [units |-> <<0, 72>>, expect |-> Ok(<<>>)],
     [units |-> <<55357, 56832, 0>>, expect |-> Ok(<<128512>>)],
     [units |-> <<72, 55357, 0>>, expect |-> Err],
     [units |-> <<56832, 72, 0>>, expect |-> Err],
     [units |-> <<55357, 0, 56832>>, expect |-> Err],
     [units |-> <<72, 0, 56832>>, expect |-> Ok(<<72>>)]}

\* the calls of FString::read: the string, its data pointer (null only for
\* the empty one), max - num, and whether its last byte is not mapped
StringCalls ==
    {c \in [op : {"FString::read"}, text : StringCases, data : {0, HeapAddress},
            slack : {0, 1}, cut : BOOLEAN] :
        /\ c.data = 0 => c.text.units = <<>>
        /\ c.cut => c.text.units # <<>>}

StringTarget(c) ==
    IF c.data = 0 THEN <<>>
    ELSE place(c.data,
               SubSeq(units_bytes(c.text.units), 1,
                      2 * Len(c.text.units) - (IF c.cut THEN 1 ELSE 0)))

FString_read_call ==
    /\ carg.op = "FString::read"
    /\ cret = <<>>
    /\ cret' = <<FString_read(StringTarget(carg),
                              [data |-> [data |-> carg.data],
                               num |-> Len(carg.text.units),
                               max |-> Len(carg.text.units) + carg.slack])>>
    /\ UNCHANGED carg
    /\ UNCHANGED besidesContainers

\* FUObjectItem as the code takes its size to be, and the items of a chunk
FUObjectItem_size == 24
max_per_chunk == 65536

\* CtxPtr<FChunkedFixedUObjectArray>::read_item_ptr: objects at offset 0 of
\* the array, the pointer of the chunk in it, the item in the chunk
read_item_ptr(m, array, item) ==
    Try(Mem_read(m, array, 8), LAMBDA chunks :
    Try(Mem_read(m, chunks + (8 * (item \div max_per_chunk)), 8), LAMBDA chunk :
        Ok(chunk + (FUObjectItem_size * (item % max_per_chunk)))))

\* obj_item.object().read(): the pointer at offset 0 of the item, None for
\* null, on which the loop of dump_inner continues with the next item
read_item_object(m, obj_item) ==
    Try(Mem_read(m, obj_item, 8), LAMBDA object :
        Ok([item |-> obj_item, object |-> IF object = 0 THEN None ELSE Some(object)]))

\* where the target keeps its chunks, by chunk index
ChunkAddress == <<16777216, 33554432>>

\* the calls of read_item_ptr: the array, the index of the item, the size of
\* FUObjectItem in the struct info of the engine version of the target,
\* whether the object of the item is null, and whether the chunk table is
\* not mapped
ItemCalls ==
    [op : {"read_item_ptr"}, array : {2048}, item : {0, 1, 65535, 65536, 65537},
     stride : {24, 32}, null : BOOLEAN, cut : BOOLEAN]

\* the object of item j of the target
ObjectOf(c, j) == IF c.null /\ j = c.item THEN 0 ELSE 4096 + (j % 4096)

\* the bytes of item j: the pointer to the object, then its other fields
ItemBytes(c, j) ==
    le_bytes(ObjectOf(c, j), 8) \o [k \in 1..(c.stride - 8) |-> IF k % 8 = 1 THEN 7 ELSE 0]

\* the target of the call: the array, the table of chunks, and the first
\* and the last two items of each chunk
ItemTarget(c) ==
    place(c.array, le_bytes(3072, 8))
    @@ (IF c.cut THEN <<>>
        ELSE place(3072, le_bytes(ChunkAddress[1], 8) \o le_bytes(ChunkAddress[2], 8)))
    @@ place(ChunkAddress[1], ItemBytes(c, 0) \o ItemBytes(c, 1))
    @@ place(ChunkAddress[1] + (c.stride * 65534),
             ItemBytes(c, 65534) \o ItemBytes(c, 65535))
    @@ place(ChunkAddress[2], ItemBytes(c, 65536) \o ItemBytes(c, 65537))

read_item_ptr_call ==
    /\ carg.op = "read_item_ptr"
    /\ cret = <<>>
    /\ cret' = <<Try(read_item_ptr(ItemTarget(carg), carg.array, carg.item),
                     LAMBDA obj_item : read_item_object(ItemTarget(carg), obj_item))>>
    /\ UNCHANGED carg
    /\ UNCHANGED besidesContainers

\* TConstSetBitIterator over a TBitArray: the index of the u32 being
\* visited, its bits not visited yet (as positions 0..31), and the indices
\* yielded so far
IterState(ok, word, unvisited, yielded, done) ==
    [ok |-> ok, word |-> word, unvisited |-> unvisited, yielded |-> yielded, done |-> done]

\* the bits set in a u32 given as its little-endian bytes
word_bits(bytes) ==
    {p \in 0..31 : (bytes[(p \div 8) + 1] \div (2 ^ (p % 8))) % 2 = 1}

\* one u32 of the bit array is fetched: from the inline words or the target
fetch_word(m, data, w) ==
    IF data.kind = "Local" THEN Ok(data.local[w + 1])
    ELSE read_bytes(m, data.address + (4 * w), 4)

\* the iterator enters word w, or fails with the read; only the bits below
\* num_bits are to be visited
enter_word(m, bit_array, w, yielded) ==
    IF fetch_word(m, TInlineAlloc_data(bit_array.allocator_instance), w).ok
    THEN IterState(TRUE, w,
                   {p \in word_bits(fetch_word(m, TInlineAlloc_data(
                                                      bit_array.allocator_instance), w).val) :
                       (32 * w) + p < bit_array.num_bits},
                   yielded, FALSE)
    ELSE IterState(FALSE, w, {}, yielded, TRUE)

\* the iterator is created
iter_begin(m, bit_array) ==
    IF bit_array.num_bits <= 0 THEN IterState(TRUE, 0, {}, <<>>, TRUE)
    ELSE enter_word(m, bit_array, 0, <<>>)

\* one step: the lowest unvisited bit of the word is yielded, or the next
\* word is entered, or the end is reached at num_bits
iter_next(m, bit_array, it) ==
    IF it.unvisited # {}
    THEN [it EXCEPT
             !.yielded = Append(@, (32 * it.word)
                                   + (CHOOSE p \in it.unvisited :
                                          \A q \in it.unvisited : p <= q)),
             !.unvisited = @ \ {CHOOSE p \in it.unvisited : \A q \in it.unvisited : p <= q}]
    ELSE IF 32 * (it.word + 1) >= bit_array.num_bits THEN [it EXCEPT !.done = TRUE]
    ELSE enter_word(m, bit_array, it.word + 1, it.yielded)

\* the arrays iterated: num_bits, which bits are set (none, all, the odd
\* ones, the last one), whether the bits of the last word from num_bits on
\* are set, and whether the words are on the heap (more than four are)
BitCalls ==
    {c \in [op : {"iter_live"}, num_bits : {0, 1, 31, 32, 33, 64, 70, 130},
            pattern : {"clear", "set", "odd", "last"}, stray : BOOLEAN, heap : BOOLEAN] :
        c.num_bits > 128 => c.heap}

\* bit p of the array of the call
Live(c, p) ==
    IF p >= c.num_bits THEN c.stray
    ELSE IF c.pattern = "clear" THEN FALSE
    ELSE IF c.pattern = "set" THEN TRUE
    ELSE IF c.pattern = "odd" THEN p % 2 = 1
    ELSE p = c.num_bits - 1

BitValue(c, p) == IF Live(c, p) THEN 1 ELSE 0

\* the little-endian bytes of word w of the array of the call
WordBytes(c, w) ==
    [b \in 1..4 |->
        BitValue(c, (32 * w) + (8 * (b - 1)))
        + (2 * BitValue(c, (32 * w) + (8 * (b - 1)) + 1))
        + (4 * BitValue(c, (32 * w) + (8 * (b - 1)) + 2))
        + (8 * BitValue(c, (32 * w) + (8 * (b - 1)) + 3))
        + (16 * BitValue(c, (32 * w) + (8 * (b - 1)) + 4))
        + (32 * BitValue(c, (32 * w) + (8 * (b - 1)) + 5))
        + (64 * BitValue(c, (32 * w) + (8 * (b - 1)) + 6))
        + (128 * BitValue(c, (32 * w) + (8 * (b - 1)) + 7))]

WordsOf(c) == (c.num_bits + 31) \div 32

\* the TBitArray of the call: four inline words, unused when on the heap
BitArray(c) ==
    [allocator_instance |->
        [inline_ptr |-> InlineAddress,
         inline_data |-> [k \in 1..4 |-> IF ~c.heap /\ k <= WordsOf(c)
                                         THEN WordBytes(c, k - 1)
                                         ELSE <<170, 170, 170, 170>>],
         secondary_data |-> [data |-> IF c.heap THEN HeapAddress ELSE 0]],
     num_bits |-> c.num_bits,
     max_bits |-> 32 * WordsOf(c)]

BitTarget(c) ==
    IF ~c.heap THEN <<>>
    ELSE [a \in HeapAddress..(HeapAddress + (4 * WordsOf(c)) - 1) |->
             WordBytes(c, (a - HeapAddress) \div 4)[((a - HeapAddress) % 4) + 1]]

bit_iterator_step ==
    /\ carg.op = "iter_live"
    /\ \/ /\ cret = <<>>
          /\ cret' = <<iter_begin(BitTarget(carg), BitArray(carg))>>
       \/ /\ cret # <<>>
          /\ ~cret[1].done
          /\ cret' = <<iter_next(BitTarget(carg), BitArray(carg), cret[1])>>
    /\ UNCHANGED carg
    /\ UNCHANGED besidesContainers

(***************************************************************************)
(* Part 4: the property type mapper and the property value reader.  A      *)
(* property is the record of what the reads of its fields in the target    *)
(* return; a cast flag CASTCLASS_F<X>Property is written "X", and          *)
(* CASTCLASS_FProperty "Property".                                          *)
(***************************************************************************)

\* a panic: unimplemented!("{f:?}") reports the flags, expect() a message;
\* nothing in the dumper catches it
Panic(what, f) == [ok |-> FALSE, panic |-> what, flags |-> f]

\* the ? operator where a panic may pass through as well
Propagate(r, K(_)) == IF r.ok THEN K(r.val) ELSE r

\* fault: Object is tested before Class, SoftObject before SoftClass and
\* Delegate before the multicast delegates
MapperArms_base_first ==
    <<"Struct", "Str", "Name", "Text", "Delegate", "MulticastInlineDelegate",
      "MulticastSparseDelegate", "Bool", "Array", "Enum", "Map", "Set", "Float",
      "Double", "Byte", "UInt16", "UInt32", "UInt64", "Int8", "Int16", "Int", "Int64",
      "Object", "Class", "SoftObject", "SoftClass", "WeakObject", "LazyObject",
      "Interface", "FieldPath", "Optional">>
\* the arms of map_prop in the order the flags are tested
MapperArms ==
    <<"Struct", "Str", "Name", "Text", "MulticastInlineDelegate",
      "MulticastSparseDelegate", "Delegate", "Bool", "Array", "Enum", "Map", "Set", "Float",
      "Double", "Byte", "UInt16", "UInt32", "UInt64", "Int8", "Int16", "Int", "Int64",
      "Class", "Object", "SoftClass", "SoftObject", "WeakObject", "LazyObject",
      "Interface", "FieldPath", "Optional">>

\* the arms of read_prop in the order the flags are tested
ReaderArms ==
    <<"Struct", "Str", "Name", "Text", "MulticastInlineDelegate",
      "MulticastSparseDelegate", "Delegate", "Bool", "Array", "Enum", "Map", "Set", "Float",
      "Double", "Byte", "UInt16", "UInt32", "UInt64", "Int8", "Int16", "Int", "Int64",
      "Object", "WeakObject", "SoftObject", "LazyObject", "Interface", "FieldPath",
      "Optional">>

\* if f.contains(..) {..} else if f.contains(..) {..} ... else: the first
\* arm whose flag is in f, "else" when there is none
first_arm(arms, f) ==
    IF \E k \in 1..Len(arms) : arms[k] \in f
    THEN arms[CHOOSE k \in 1..Len(arms) :
                  arms[k] \in f /\ \A j \in 1..(k - 1) : arms[j] \notin f]
    ELSE "else"

\* fault: a property no arm matches is passed over
unimplemented_skipped(f) == Ok(<<>>)
\* unimplemented!("{f:?}")
unimplemented(f) == Panic("unimplemented", f)

\* the arms of map_prop that read the path of an object the property
\* refers to, and those that map the properties it refers to
PathArms ==
    {"Struct", "MulticastInlineDelegate", "MulticastSparseDelegate", "Delegate", "Class",
     "Object", "SoftClass", "SoftObject", "WeakObject", "LazyObject", "Interface"}
InnerArms == {"Array", "Enum", "Map", "Set", "Optional"}

RECURSIVE map_prop(_)
RECURSIVE map_props(_, _, _)

\* the PropertyType of the arm taken
map_type(ptr, arm) ==
    IF arm = "else" THEN unimplemented(ptr.flags)
    ELSE IF arm \in PathArms
    THEN IF ptr.refs_ok THEN Ok([kind |-> arm, inner |-> <<>>, detail |-> <<>>]) ELSE Err
    ELSE IF arm \in InnerArms
    THEN IF ~ptr.refs_ok THEN Err
         ELSE Propagate(map_props(SubSeq(ptr.inner, 1, IF arm = "Map" THEN 2 ELSE 1),
                                  1, <<>>), LAMBDA inner :
                  Ok([kind |-> arm, inner |-> inner, detail |-> <<>>]))
    ELSE IF arm = "Bool"
    THEN Ok([kind |-> arm, inner |-> <<>>, detail |-> <<ptr.byte_offset, ptr.byte_mask>>])
    ELSE Ok([kind |-> arm, inner |-> <<>>, detail |-> <<>>])

map_prop(ptr) ==
    IF ~ptr.readable THEN Err
    ELSE Propagate(map_type(ptr, first_arm(MapperArms, ptr.flags)), LAMBDA t :
             Ok([name |-> ptr.name, offset |-> ptr.offset_internal,
                 array_dim |-> ptr.array_dim, size |-> ptr.element_size, type |-> t]))

\* the properties a container property refers to, mapped in turn
map_props(props, k, mapped) ==
    IF k > Len(props) THEN Ok(mapped)
    ELSE Propagate(map_prop(props[k]), LAMBDA p : map_props(props, k + 1, Append(mapped, p)))

\* the loop of read_struct over child_properties: the fields that are
\* properties are mapped
RECURSIVE read_struct_properties(_, _, _)
read_struct_properties(fields, k, properties) ==
    IF k > Len(fields) THEN Ok(properties)
    ELSE IF "Property" \notin fields[k].flags
    THEN read_struct_properties(fields, k + 1, properties)
    ELSE Propagate(map_prop(fields[k]), LAMBDA p :
             read_struct_properties(fields, k + 1, Append(properties, p)))

\* for_each_prop: the properties of a struct and then of its super structs
RECURSIVE for_each_prop(_)
for_each_prop(ustruct) ==
    SelectSeq(ustruct.child_properties, LAMBDA field : "Property" \in field.flags)
    \o (IF ustruct.super_struct = None THEN <<>> ELSE for_each_prop(ustruct.super_struct[1]))

\* OrderMap::insert
properties_insert(properties, name, value) ==
    IF \E k \in 1..Len(properties) : properties[k][1] = name
    THEN [k \in 1..Len(properties) |->
             IF properties[k][1] = name THEN <<name, value>> ELSE properties[k]]
    ELSE Append(properties, <<name, value>>)

\* fault: the sign is lost
unsigned_value(b) == le_value(b)
\* an integer of a signed type from its little-endian bytes
signed_value(b) ==
    le_value(SubSeq(b, 1, Len(b) - 1))
    + (IF b[Len(b)] >= 128 THEN b[Len(b)] - 256 ELSE b[Len(b)]) * (256 ^ (Len(b) - 1))

\* byte & byte_mask
RECURSIVE bit_and(_, _)
bit_and(a, b) ==
    IF a = 0 \/ b = 0 THEN 0
    ELSE ((a % 2) * (b % 2)) + (2 * bit_and(a \div 2, b \div 2))

\* fault: the mask is not applied
bool_of_byte(byte, byte_mask) == byte # 0
\* byte & byte_mask != 0
bool_of_masked_byte(byte, byte_mask) == bit_and(byte, byte_mask) # 0

\* fault: every element is read where the first one is
first_element_offset(prop, index) == prop.offset_internal
\* offset_internal + index * size
element_offset(prop, index) == prop.offset_internal + (index * prop.element_size)

\* fault: the integer is taken as a position in the names table
find_name_at(names, value) ==
    IF value + 1 \in 1..Len(names) THEN Some(names[value + 1][1]) ELSE None
\* names.into_iter().find_map(|(name, v)| (v == value).then_some(name))
find_name(names, value) ==
    IF \E k \in 1..Len(names) : names[k][2] = value
    THEN Some(names[CHOOSE k \in 1..Len(names) :
                        names[k][2] = value /\ \A j \in 1..(k - 1) : names[j][2] # value][1])
    ELSE None

\* the integer of the value of the underlying property of an enum
enum_integer(underlying) ==
    IF underlying.kind \in {"Int8", "Int16", "Int", "UInt16", "UInt32"}
    THEN Ok(underlying.value)
    ELSE IF underlying.kind = "Byte" /\ underlying.tag = "Value"
    THEN Ok(underlying.value)
    ELSE Panic("underlying enum prop", {})

\* EnumPropertyValue or BytePropertyValue: the name found, else the integer
named_value(kind, found, value) ==
    IF found = None THEN [kind |-> kind, tag |-> "Value", value |-> value]
    ELSE [kind |-> kind, tag |-> "Name", name |-> found[1]]

\* fault: a kind without a value is an error
return_error == Err
\* return Ok(None)
return_none == Ok(None)

\* the arms of read_prop that return Ok(None)
NoneArms ==
    {"Text", "MulticastInlineDelegate", "MulticastSparseDelegate", "Delegate", "Map", "Set",
     "WeakObject", "SoftObject", "LazyObject", "Interface", "FieldPath", "Optional"}

\* the size of the values read whole, signed and unsigned
UnsignedSize == [UInt16 |-> 2, UInt32 |-> 4]
SignedSize == [Int8 |-> 1, Int16 |-> 2, Int |-> 4]
\* f32, f64, u64 and i64 are kept as their bytes
BytesSize == [Float |-> 4, Double |-> 8, UInt64 |-> 8, Int64 |-> 8]

RECURSIVE read_prop(_, _, _, _)
RECURSIVE read_elements(_, _, _, _, _, _)
RECURSIVE read_fields(_, _, _, _, _)

\* read_props: the map of the values of the properties of ustruct at ptr
read_props(t, ustruct, ptr) == read_fields(t, for_each_prop(ustruct), 1, ptr, <<>>)

\* for i in 0..count: the values so far, None as soon as one is None
read_elements(t, prop, ptr, index, count, elements) ==
    IF index >= count THEN Ok(Some(elements))
    ELSE Propagate(read_prop(t, prop, ptr, index), LAMBDA value :
             IF value = None THEN Ok(None)
             ELSE read_elements(t, prop, ptr, index + 1, count, Append(elements, value[1])))

\* the closure of read_props on one property
read_field(t, prop, ptr, properties) ==
    IF ~prop.readable THEN Err
    ELSE IF prop.array_dim = 1
    THEN Propagate(read_prop(t, prop, ptr, 0), LAMBDA value :
             Ok(IF value = None THEN properties
                ELSE properties_insert(properties, prop.name, value[1])))
    ELSE Propagate(read_elements(t, prop, ptr, 0, prop.array_dim, <<>>), LAMBDA elements :
             Ok(IF elements = None THEN properties
                ELSE properties_insert(properties, prop.name,
                            [kind |-> "Array", value |-> elements[1]])))

read_fields(t, props, k, ptr, properties) ==
    IF k > Len(props) THEN Ok(properties)
    ELSE Propagate(read_field(t, props[k], ptr, properties), LAMBDA next :
             read_fields(t, props, k + 1, ptr, next))

\* the Str arm: the header of the string at ptr, then FString::read
read_str(t, ptr) ==
    Propagate(read_bytes(t.mem, ptr, 16), LAMBDA b :
    Propagate(FString_read(t.mem, [data |-> [data |-> le_value(SubSeq(b, 1, 8))],
                                   num |-> le_value(SubSeq(b, 9, 12)),
                                   max |-> le_value(SubSeq(b, 13, 16))]), LAMBDA s :
        Ok(Some([kind |-> "Str", value |-> s]))))

\* the Name arm: the name at ptr, resolved in the name pool
read_name(t, ptr) ==
    Propagate(read_bytes(t.mem, ptr, 8), LAMBDA b :
    Propagate(PtrFNamePool_read_mem(t.mem, t.pool,
                                    [ComparisonIndex |-> le_value(SubSeq(b, 1, 4)),
                                     Number |-> le_value(SubSeq(b, 5, 8))]), LAMBDA s :
        Ok(Some([kind |-> "Name", value |-> s]))))

\* the Bool arm
read_bool(t, prop, ptr) ==
    Propagate(Mem_read(t.mem, ptr + prop.byte_offset, 1), LAMBDA byte :
        Ok(Some([kind |-> "Bool", value |-> bool_of_masked_byte(byte, prop.byte_mask)])))

\* fault: no more than the first element is read
read_array_capped(t, prop, ptr) ==
    Propagate(Mem_read(t.mem, ptr + 8, 4), LAMBDA num :
    Propagate(Mem_read(t.mem, ptr, 8), LAMBDA data :
        Propagate(read_elements(t, prop.inner[1], data, 0, IF num > 1 THEN 1 ELSE num, <<>>),
                  LAMBDA elements : Ok(Some([kind |-> "Array", value |-> elements[1]])))))
\* the Array arm: num and data of the FScriptArray at ptr, then the
\* elements at data
read_array(t, prop, ptr) ==
    Propagate(Mem_read(t.mem, ptr + 8, 4), LAMBDA num :
    Propagate(Mem_read(t.mem, ptr, 8), LAMBDA data :
        IF data = 0 THEN Ok(Some([kind |-> "Array", value |-> <<>>]))
        ELSE IF ~prop.refs_ok THEN Err
        ELSE Propagate(read_elements(t, prop.inner[1], data, 0, num, <<>>), LAMBDA elements :
                 IF elements = None THEN Ok(None)
                 ELSE Ok(Some([kind |-> "Array", value |-> elements[1]])))))

\* the Enum arm
read_enum_value(t, prop, ptr) ==
    IF ~prop.refs_ok THEN Err
    ELSE Propagate(read_prop(t, prop.inner[1], ptr, 0), LAMBDA underlying :
        IF underlying = None THEN Panic("valid underlying prop", {})
        ELSE Propagate(enum_integer(underlying[1]), LAMBDA value :
            IF prop.enum = None THEN Panic("valid enum", {})
            ELSE Ok(Some(named_value("Enum", find_name(prop.enum[1], value), value)))))

\* the Byte arm
read_byte(t, prop, ptr) ==
    Propagate(Mem_read(t.mem, ptr, 1), LAMBDA value :
        Ok(Some(named_value("Byte",
                            IF prop.enum = None THEN None
                            ELSE find_name(prop.enum[1], value), value))))

\* the Object arm: the path of the object pointed to, none for null
read_object_value(t, ptr) ==
    Propagate(Mem_read(t.mem, ptr, 8), LAMBDA obj :
        IF obj = 0 THEN Ok(Some([kind |-> "Object", value |-> None]))
        ELSE IF obj \in DOMAIN t.paths
        THEN Ok(Some([kind |-> "Object", value |-> Some(t.paths[obj])]))
        ELSE Err)

\* the arm of read_prop taken, on the bytes at ptr
read_arm(t, prop, ptr, arm) ==
    IF arm = "else" THEN unimplemented(prop.flags)
    ELSE IF arm \in NoneArms THEN return_none
    ELSE IF arm = "Struct"
    THEN IF ~prop.refs_ok THEN Err
         ELSE Propagate(read_props(t, prop.struct[1], ptr), LAMBDA properties :
                  Ok(Some([kind |-> "Struct", value |-> properties])))
    ELSE IF arm = "Str" THEN read_str(t, ptr)
    ELSE IF arm = "Name" THEN read_name(t, ptr)
    ELSE IF arm = "Bool" THEN read_bool(t, prop, ptr)
    ELSE IF arm = "Array" THEN read_array(t, prop, ptr)
    ELSE IF arm = "Enum" THEN read_enum_value(t, prop, ptr)
    ELSE IF arm = "Byte" THEN read_byte(t, prop, ptr)
    ELSE IF arm = "Object" THEN read_object_value(t, ptr)
    ELSE IF arm \in DOMAIN UnsignedSize
    THEN Propagate(Mem_read(t.mem, ptr, UnsignedSize[arm]), LAMBDA value :
             Ok(Some([kind |-> arm, value |-> value])))
    ELSE IF arm \in DOMAIN SignedSize
    THEN Propagate(read_bytes(t.mem, ptr, SignedSize[arm]), LAMBDA b :
             Ok(Some([kind |-> arm, value |-> signed_value(b)])))
    ELSE Propagate(read_bytes(t.mem, ptr, BytesSize[arm]), LAMBDA b :
             Ok(Some([kind |-> arm, value |-> b])))

read_prop(t, prop, ptr, index) ==
    IF ~prop.readable THEN Err
    ELSE read_arm(t, prop, ptr + element_offset(prop, index),
                  first_arm(ReaderArms, prop.flags))

\* the largest array_dim of a property of the target
MaxDim == 3

\* the cast flags of properties no arm tests
OtherFlags == {"Numeric", "MulticastDelegate", "ObjectPropertyBase"}
ArmFlags == {MapperArms[k] : k \in 1..Len(MapperArms)}

\* the cast flag sets of the fields mapped: none, one or two of the flags
FlagSets == {{a, b} : a, b \in ArmFlags \cup OtherFlags} \cup {{}}

\* a field of the target with the values of its reads
Field(name, flags, offset, size, dim) ==
    [name |-> name, flags |-> flags, offset_internal |-> offset, element_size |-> size,
     array_dim |-> dim, byte_offset |-> 0, byte_mask |-> 0, inner |-> <<>>,
     enum |-> None, struct |-> None, readable |-> TRUE, refs_ok |-> TRUE]

\* the calls of read_struct: the flags of the fields X and Y, whether they
\* have CASTCLASS_FProperty, the flag of the properties X and Y refer to,
\* whether X can be read, and the objects it refers to
MapCalls ==
    [op : {"read_struct"}, flags : FlagSets, under : {"Int", "Numeric"},
     is_property : BOOLEAN, readable : BOOLEAN, refs_ok : BOOLEAN]

Referred(c) == Field("U", {c.under, "Property"}, 0, 4, 1)

\* child_properties of the struct of the call: X, A and Y, Y with the flags
\* of X
StructFields(c) ==
    <<[Field("X", c.flags \cup (IF c.is_property THEN {"Property"} ELSE {}), 8, 8, 1)
          EXCEPT !.inner = <<Referred(c), Referred(c)>>, !.byte_offset = 3,
                 !.byte_mask = 4, !.readable = c.readable, !.refs_ok = c.refs_ok],
      Field("A", {"Int", "Property"}, 0, 4, 1),
      [Field("Y", c.flags \cup (IF c.is_property THEN {"Property"} ELSE {}), 16, 8, 1)
          EXCEPT !.inner = <<Referred(c), Referred(c)>>]>>

read_struct_call ==
    /\ parg.op = "read_struct"
    /\ pret = <<>>
    /\ pret' = <<read_struct_properties(StructFields(parg), 1, <<>>)>>
    /\ UNCHANGED parg
    /\ UNCHANGED besidesProps

\* where the object read is, and the objects a property of it may point to
ObjectBase == 32768
ObjectPaths == 9000 :> <<47, 83, 46, 67>>

\* what the heap of the target holds: the units of "Hi" and a terminator
HeapBytes == <<72, 0, 105, 0, 0, 0>>

\* the last bytes of the object: the byte of A and the two of Z
ObjectTail == <<9, 0, 1, 2, 0, 0, 0, 0>>

\* the header of an array of n elements on the heap
ScriptArray(n) == le_bytes(HeapAddress, 8) \o le_bytes(n, 4) \o le_bytes(n, 4)

\* the first 32 bytes of the objects read: three of small integers, and
\* one of a string header, a name, and a pointer to an object
ObjectPatterns ==
    <<<<5, 0, 0, 6, 3, 0, 0, 3, 1, 0, 0, 0, 255, 255, 0, 0>> \o [k \in 1..16 |-> 0],
      <<3, 0, 0, 3, 0, 0, 0, 6, 5, 1, 0, 0, 128, 0, 0, 0>> \o [k \in 1..16 |-> 0],
      <<0, 0, 0, 0, 7, 0, 0, 1, 1, 0, 0, 0, 5, 0, 0, 0>> \o [k \in 1..16 |-> 0],
      ScriptArray(3) \o le_bytes(0, 8) \o le_bytes(9000, 8),
      [k \in 1..32 |-> IF k = 9 THEN 42 ELSE 0]>>
Layout == 4

\* the names tables of the enums of the target; 0 is no enum
NamesTables ==
    <<<< <<"A", 0>>, <<"B", 1>>, <<"C", 5>> >>,
      <<>>,
      << <<"A", 5>>, <<"B", 5>> >>,
      << <<"M", -1>>, <<"N", 255>>, <<"K", 65535>> >> >>

\* element_size of a property by its flag
KindSize(k) ==
    IF k \in {"Byte", "Int8", "Bool"} THEN 1
    ELSE IF k \in {"Int16", "UInt16"} THEN 2
    ELSE IF k \in {"Int", "UInt32", "Float", "Enum"} THEN 4
    ELSE IF k \in {"Str", "Array"} THEN 16
    ELSE 8

ReadCall(case, flags, offset, size, dim, byte_offset, byte_mask, under, names, pattern,
         counts, mapped) ==
    [op |-> "read_props", case |-> case, flags |-> flags, offset |-> offset, size |-> size,
     dim |-> dim, byte_offset |-> byte_offset, byte_mask |-> byte_mask, under |-> under,
     names |-> names, pattern |-> pattern, counts |-> counts, mapped |-> mapped]

\* a property X of each flag, of no arm, and of a class and a soft class
KindCalls ==
    {ReadCall("kind", f, offset, KindSize(CHOOSE k \in f : TRUE), dim, 0, 1,
              "Int16", 1, Layout, <<0, 0>>, mapped) :
        f \in {{k} : k \in ArmFlags \cup OtherFlags}
              \cup {{"Class", "Object"}, {"SoftClass", "SoftObject"}},
        offset \in {0, 16, 24}, dim \in {1, 2}, mapped \in BOOLEAN}

BoolCalls ==
    {ReadCall("bool", {"Bool"}, offset, 1, dim, byte_offset, byte_mask, "", 0, pattern,
              <<0, 0>>, TRUE) :
        offset \in {0, 4}, dim \in {1, 2}, byte_offset \in {0, 3},
        byte_mask \in {1, 4, 6, 128}, pattern \in 1..3}

EnumCalls ==
    {ReadCall("enum", {"Enum"}, offset, 4, 1, 0, 0, under, names, pattern, <<0, 0>>, TRUE) :
        offset \in {0, 4, 12},
        under \in {"Byte", "Int8", "Int16", "Int", "UInt16", "UInt32", "Int64", "Text"},
        names \in 0..Len(NamesTables), pattern \in 1..3}

DimCalls ==
    {ReadCall("dim", {k}, offset, KindSize(k), dim, 0, 0, "", 0, pattern, <<0, 0>>, TRUE) :
        k \in {"Byte", "Int16", "Int", "Text"}, offset \in {0, 4}, dim \in 1..MaxDim,
        pattern \in 1..3}

\* an array property of array_dim 1 or 2 whose elements are arrays of
\* counts[i] elements
ElementCalls ==
    {ReadCall("array", {"Array"}, 0, 16, dim, 0, 0, under, 0, Layout, <<n0, n1>>, TRUE) :
        dim \in {1, 2}, under \in {"Int16", "Text"}, n0 \in 0..2, n1 \in 0..2}

\* a property of each numeric kind, also where the object holds 2A 00 00 00
NumCalls ==
    {ReadCall("num", {k}, offset, KindSize(k), dim, 0, 0, "", 0, pattern, <<0, 0>>, TRUE) :
        k \in {"Byte", "Int8", "Int16", "Int", "UInt16", "UInt32", "Int64", "UInt64",
               "Float", "Double"},
        offset \in {0, 8, 12}, dim \in {1, 2}, pattern \in {1, 2, 3, 5}}

\* an array property at offset 0 or 16 of an object that holds two arrays
\* of counts[i] elements
ScriptCalls ==
    {ReadCall("script", {"Array"}, offset, 16, 1, 0, 0, under, 0, Layout, <<n0, n1>>, TRUE) :
        offset \in {0, 16}, under \in {"Byte", "Int16"}, n0 \in 0..3, n1 \in 0..3}

ReadCalls ==
    KindCalls \cup BoolCalls \cup EnumCalls \cup DimCalls \cup ElementCalls \cup NumCalls
    \cup ScriptCalls

\* the bytes of the object of the call
ObjectBytes(c) ==
    (IF c.case \in {"array", "script"} THEN ScriptArray(c.counts[1]) \o ScriptArray(c.counts[2])
     ELSE ObjectPatterns[c.pattern]) \o ObjectTail

\* the struct a Struct property refers to
InnerStruct ==
    [child_properties |->
        <<[Field("B", {"Bool", "Property"}, 0, 1, 1) EXCEPT !.byte_mask = 32],
          Field("V", {"UInt16", "Property"}, 2, 2, 1)>>,
     super_struct |-> None]

\* the property X of the call
XProp(c) ==
    [Field("X", c.flags \cup {"Property"}, c.offset, c.size, c.dim)
        EXCEPT !.byte_offset = c.byte_offset, !.byte_mask = c.byte_mask,
               !.inner = IF c.under = "" THEN <<>>
                         ELSE <<Field("U", {c.under, "Property"}, 0, KindSize(c.under), 1)>>,
               !.enum = IF c.names = 0 THEN None ELSE Some(NamesTables[c.names]),
               !.struct = Some(InnerStruct)]

\* the class of the object: X, a field that is no property and Z, and A in
\* its super struct
ObjectStruct(c) ==
    [child_properties |->
        <<XProp(c), Field("F", {"Int"}, 0, 4, 1), Field("Z", {"Int16", "Property"}, 34, 2, 1)>>,
     super_struct |->
        Some([child_properties |-> <<Field("A", {"Byte", "Property"}, 32, 1, 1)>>,
              super_struct |-> None])]

\* the target of the call: the object, the heap, and a name pool with the
\* name Actor at index 0
Target(c) ==
    [mem |-> (IF c.mapped THEN place(ObjectBase, ObjectBytes(c)) ELSE <<>>)
             @@ place(HeapAddress, HeapBytes)
             @@ NameTarget([pool |-> 4096, block |-> 0, unit |-> 0, bits |-> 0,
                            cut |-> FALSE,
                            entry |-> [wide |-> FALSE,
                                       payload |-> <<65, 99, 116, 111, 114>>]]),
     pool |-> 4096,
     paths |-> ObjectPaths]

read_props_call ==
    /\ parg.op = "read_props"
    /\ pret = <<>>
    /\ pret' = <<read_props(Target(parg), ObjectStruct(parg), ObjectBase)>>
    /\ UNCHANGED parg
    /\ UNCHANGED besidesProps

\* the walk of for_each_prop, one step per turn of its loops: str is the
\* struct being walked, field the position in its chain (past the end is
\* the null next), visited the nodes read and called the nodes handed to f
Walk(state, str, field, visited, called) ==
    [state |-> state, str |-> str, field |-> field, visited |-> visited, called |-> called]

\* let mut str = Some(ustruct.clone())
for_each_prop_begin(ustruct) == Walk("EnteringStruct", Some(ustruct), 1, <<>>, <<>>)

\* fault: f is called for every node of the chain
for_each_prop_every_field(w) ==
    IF w.str = None THEN [w EXCEPT !.state = "Done"]
    ELSE IF w.field > Len(w.str[1].child_properties)
    THEN [w EXCEPT !.state = "EndChain", !.str = w.str[1].super_struct, !.field = 1]
    ELSE IF ~w.str[1].child_properties[w.field].readable THEN [w EXCEPT !.state = "Err"]
    ELSE [w EXCEPT !.state = "InChain",
                   !.visited = Append(@, w.str[1].child_properties[w.field].name),
                   !.called = Append(@, w.str[1].child_properties[w.field].name),
                   !.field = @ + 1]
\* one turn: the outer loop ends when str is None; the chain ends at the
\* null next and str becomes the super struct; a node is read, f is called
\* if its flags contain CASTCLASS_FProperty, and field becomes its next
for_each_prop_next(w) ==
    IF w.str = None THEN [w EXCEPT !.state = "Done"]
    ELSE IF w.field > Len(w.str[1].child_properties)
    THEN [w EXCEPT !.state = "EndChain", !.str = w.str[1].super_struct, !.field = 1]
    ELSE IF ~w.str[1].child_properties[w.field].readable THEN [w EXCEPT !.state = "Err"]
    ELSE [w EXCEPT !.state = "InChain",
                   !.visited = Append(@, w.str[1].child_properties[w.field].name),
                   !.called = IF "Property" \in w.str[1].child_properties[w.field].flags
                              THEN Append(@, w.str[1].child_properties[w.field].name)
                              ELSE @,
                   !.field = @ + 1]

\* the structs of a walk: a struct, its super struct, and so on
MaxDepth == 3

\* the chains walked: for each node whether it is a property
Chains == {<<>>, <<TRUE>>, <<FALSE>>, <<TRUE, FALSE, TRUE>>, <<FALSE, TRUE>>, <<FALSE, FALSE>>}

\* the calls of for_each_prop: the chain of the struct, of its super struct
\* and of the super struct of that one (depth is the number of structs), and
\* cut, the node that cannot be read (0 for none), counted along the walk
WalkCalls ==
    {c \in [op : {"for_each_prop"}, depth : 1..MaxDepth, chains : [1..MaxDepth -> Chains],
            cut : 0..2] :
        \A l \in 1..MaxDepth : l > c.depth => c.chains[l] = <<>>}

\* the nodes of the call in the order of the walk: <<level, position>>
RECURSIVE WalkNodes(_, _)
WalkNodes(c, l) ==
    IF l > c.depth THEN <<>>
    ELSE [k \in 1..Len(c.chains[l]) |-> <<l, k>>] \o WalkNodes(c, l + 1)

NodeIsProperty(c, n) == c.chains[n[1]][n[2]]

\* how many nodes come before level l
RECURSIVE NodesBefore(_, _)
NodesBefore(c, l) == IF l <= 1 THEN 0 ELSE Len(c.chains[l - 1]) + NodesBefore(c, l - 1)

\* the struct of level l of the call
RECURSIVE WalkStruct(_, _)
WalkStruct(c, l) ==
    [child_properties |->
        [k \in 1..Len(c.chains[l]) |->
            [Field(<<l, k>>, IF c.chains[l][k] THEN {"Int", "Property"} ELSE {"Int"}, 0, 4, 1)
                EXCEPT !.readable = (NodesBefore(c, l) + k # c.cut)]],
     super_struct |-> IF l >= c.depth THEN None ELSE Some(WalkStruct(c, l + 1))]

for_each_prop_step ==
    /\ parg.op = "for_each_prop"
    /\ \/ /\ pret = <<>>
          /\ pret' = <<for_each_prop_begin(WalkStruct(parg, 1))>>
       \/ /\ pret # <<>>
          /\ pret[1].state \notin {"Done", "Err"}
          /\ pret' = <<for_each_prop_next(pret[1])>>
    /\ UNCHANGED parg
    /\ UNCHANGED besidesProps

\* read_path turn by turn: obj is the object whose outer is read next,
\* objects the vector built so far, path the String returned
PathWalk(state, obj, objs, path) ==
    [state |-> state, obj |-> obj, objects |-> objs, path |-> path]

\* let mut objects = vec![obj.clone()]
read_path_begin(obj) == PathWalk("walking", obj, <<obj>>, <<>>)

\* fault: the walk ends at an object it has met before
read_path_next_visited(w) ==
    IF ~outer_private_read(w.obj).ok THEN [w EXCEPT !.state = "Err"]
    ELSE IF outer_private_read(w.obj).val # None
            /\ \A k \in 1..Len(w.objects) : w.objects[k] # outer_private_read(w.obj).val[1]
    THEN [w EXCEPT !.obj = outer_private_read(w.obj).val[1],
                   !.objects = Append(@, outer_private_read(w.obj).val[1])]
    ELSE IF push_names(w.objects, Len(w.objects), <<>>, None).ok
    THEN [w EXCEPT !.state = "Done",
                   !.path = push_names(w.objects, Len(w.objects), <<>>, None).val]
    ELSE [w EXCEPT !.state = "Err"]
\* one turn of while let Some(outer) = obj.outer_private().read()?: the
\* outer is pushed; at the null outer the second loop builds the path
read_path_next(w) ==
    IF ~outer_private_read(w.obj).ok THEN [w EXCEPT !.state = "Err"]
    ELSE IF outer_private_read(w.obj).val # None
    THEN [w EXCEPT !.obj = outer_private_read(w.obj).val[1],
                   !.objects = Append(@, outer_private_read(w.obj).val[1])]
    ELSE IF push_names(w.objects, Len(w.objects), <<>>, None).ok
    THEN [w EXCEPT !.state = "Done",
                   !.path = push_names(w.objects, Len(w.objects), <<>>, None).val]
    ELSE [w EXCEPT !.state = "Err"]

\* the longest vector the walk is followed to
MaxPath == 7

\* targets whose outer pointers are arbitrary: null, any object, itself, or
\* unmapped memory
PathHeaps ==
    {[o \in ObjectAddrs |->
         [name |-> FNameOf(3 + (o % 2), 0), outer |-> outers[o],
          class |-> IF o = 1 THEN UPackageClass ELSE UObjectClass, super |-> 0, ccf |-> {}]]
     @@ ClassTable({}) :
        outers \in [ObjectAddrs -> {0, Unmapped} \cup ObjectAddrs]}

PathCalls == [op : {"read_path"}, obj : ObjectAddrs]

read_path_step ==
    /\ parg.op = "read_path"
    /\ \/ /\ pret = <<>>
          /\ pret' = <<read_path_begin(parg.obj)>>
       \/ /\ pret # <<>>
          /\ pret[1].state = "walking"
          /\ Len(pret[1].objects) < MaxPath
          /\ pret' = <<read_path_next(pret[1])>>
    /\ UNCHANGED parg
    /\ UNCHANGED besidesProps

InitPath ==
    /\ IdleCache
    /\ IdleContainers
    /\ heap \in PathHeaps
    /\ items = <<>>
    /\ i = 0
    /\ objects = <<>>
    /\ child_map = <<>>
    /\ result = "idle"
    /\ emitted = <<>>
    /\ parg \in PathCalls
    /\ pret = <<>>

NextPath == read_path_step

SpecPath == InitPath /\ [][NextPath]_vars

\* the loop of read_path keeps running
FairSpecPath == SpecPath /\ WF_vars(read_path_step)

\* the entries the walker was asked to build so far
Processed == {items[k] : k \in 1..i} \cap DOMAIN heap

(***************************************************************************)
(* C1: after a dump that returned Ok, every entry with an outer has that   *)
(* outer among the entries, and the outer's children contain the entry's   *)
(* path.                                                                   *)
(***************************************************************************)
C1_OuterListsChild ==
    result = "ok" =>
        \A p \in DOMAIN objects :
            objects[p].outer # None =>
                /\ objects[p].outer[1] \in DOMAIN objects
                /\ p \in objects[objects[p].outer[1]].children

\* a successful dump with two entries inside the same outer
C1_Witness ==
    /\ result = "ok"
    /\ \E p, q \in DOMAIN objects :
        /\ p # q
        /\ objects[p].outer # None
        /\ objects[p].outer = objects[q].outer

(***************************************************************************)
(* C2: every key of the snapshot starts with /Script/, and no object whose *)
(* path does not start with it has been inserted.                          *)
(***************************************************************************)
HasScriptPrefix(p) ==
    Len(p) >= 8 /\ SubSeq(p, 1, 8) = <<"/", "S", "c", "r", "i", "p", "t", "/">>

C2_ScriptOnly ==
    /\ \A p \in DOMAIN objects : HasScriptPrefix(p)
    /\ \A o \in Processed :
        (read_path(o).ok /\ ~HasScriptPrefix(read_path(o).val)) => o \notin DOMAIN emitted

\* objects under /Scripts were enumerated and skipped, others were inserted
C2_Witness ==
    /\ result = "ok"
    /\ objects # <<>>
    /\ \E o \in Processed :
        /\ read_path(o).ok
        /\ ~HasScriptPrefix(read_path(o).val)
        /\ Len(read_path(o).val) > 8

(***************************************************************************)
(* C3: two distinct objects that pass the filter never get the same path:  *)
(* the snapshot has one entry per inserted object.                         *)
(***************************************************************************)
C3_PathsInjective ==
    /\ \A a, b \in DOMAIN emitted : a # b => emitted[a].path # emitted[b].path
    /\ Cardinality(DOMAIN objects) = Cardinality(DOMAIN emitted)

(***************************************************************************)
(* C4: the path of an object is the names of its outer chain, root first,  *)
(* each name after the first preceded by "." when the element before it is *)
(* of a class with the UPackage cast flag and by ":" otherwise; it has one *)
(* separator less than the chain has objects.                              *)
(***************************************************************************)
NameOf(o) == NamePool[heap[o].name.ComparisonIndex]
IsPackage(o) == CASTCLASS_UPackage \in heap[heap[o].class].ccf

RECURSIVE QualifiedPath(_)
QualifiedPath(o) ==
    IF heap[o].outer = 0 THEN NameOf(o)
    ELSE QualifiedPath(heap[o].outer)
         \o <<IF IsPackage(heap[o].outer) THEN "." ELSE ":">>
         \o NameOf(o)

RECURSIVE ChainLength(_)
ChainLength(o) == IF heap[o].outer = 0 THEN 1 ELSE 1 + ChainLength(heap[o].outer)

RECURSIVE NamesLength(_)
NamesLength(o) ==
    Len(NameOf(o)) + (IF heap[o].outer = 0 THEN 0 ELSE NamesLength(heap[o].outer))

C4_PathFormat ==
    /\ \A o \in Processed :
        /\ read_path(o) = Ok(QualifiedPath(o))
        /\ Len(read_path(o).val) = NamesLength(o) + (ChainLength(o) - 1)
    /\ \A o \in DOMAIN emitted : emitted[o].path = QualifiedPath(o)

\* package /Script/Engine, class Actor inside it, RootComponent inside Actor
C4_Witness ==
    \E o \in DOMAIN emitted :
        /\ ChainLength(o) = 3
        /\ IsPackage(heap[heap[o].outer].outer)
        /\ ~IsPackage(heap[o].outer)
        /\ emitted[o].path =
             <<"/", "S", "c", "r", "i", "p", "t", "/", "E", "n", "g", "i", "n", "e",
               ".", "A", "c", "t", "o", "r",
               ":", "R", "o", "o", "t", "C", "o", "m", "p", "o", "n", "e", "n", "t">>

(***************************************************************************)
(* C5: the kind of an inserted entry is that of the first flag, in the     *)
(* order UClass, UFunction, UScriptStruct, UEnum, UPackage, that the cast  *)
(* flags of the object's class contain, and Object when they contain none. *)
(***************************************************************************)
KindPriority ==
    << <<CASTCLASS_UClass, "Class">>, <<CASTCLASS_UFunction, "Function">>,
       <<CASTCLASS_UScriptStruct, "ScriptStruct">>, <<CASTCLASS_UEnum, "Enum">>,
       <<CASTCLASS_UPackage, "Package">> >>

FirstKind(f) ==
    LET present == {k \in DOMAIN KindPriority : KindPriority[k][1] \in f} IN
    IF present = {} THEN "Object"
    ELSE KindPriority[CHOOSE k \in present : \A m \in present : k <= m][2]

C5_KindByPriority ==
    \A o \in DOMAIN emitted :
        emitted[o].object.kind = FirstKind(heap[heap[o].class].ccf)

\* an entry of a class with three of the five flags and without UClass
C5_Witness ==
    \E o \in DOMAIN emitted :
        /\ {CASTCLASS_UFunction, CASTCLASS_UEnum, CASTCLASS_UPackage}
               \subseteq heap[heap[o].class].ccf
        /\ CASTCLASS_UClass \notin heap[heap[o].class].ccf
        /\ emitted[o].object.kind = "Function"

(***************************************************************************)
(* C11: resolving a name reads the block pointer from the table at         *)
(* pool + 0x10, the 2-byte header at (entry_index & 0xFFFF) * 2 in the     *)
(* block, and the payload 2 bytes further: len * 2 bytes as UTF-16LE when  *)
(* header & 1 is set, len bytes as UTF-8 otherwise, len = header >> 6; the *)
(* resolved name has header >> 6 code units.                               *)
(***************************************************************************)
CodeUnits(text, wide) == Len(IF wide THEN Utf16Of(text) ELSE Utf8Of(text))

C11_NameResolution ==
    (carg.op = "PtrFNamePool::read" /\ cret # <<>>) =>
        /\ cret[1] = (IF carg.cut THEN Err ELSE carg.entry.expect)
        /\ cret[1].ok => CodeUnits(cret[1].val, carg.entry.wide) = HeaderOf(carg) \div 64

\* a narrow name of 63 letters resolved from the second block, 63 bytes long
C11_Witness ==
    /\ carg.op = "PtrFNamePool::read"
    /\ carg.block = 1
    /\ carg.unit > 0
    /\ ~carg.entry.wide
    /\ HeaderOf(carg) \div 64 = 63
    /\ cret = <<Ok([k \in 1..63 |-> 97])>>

(***************************************************************************)
(* C12: an array read checks the header: num = 0 gives an empty vector,    *)
(* num = max gives max elements, and num > max fails instead of reading    *)
(* num elements.                                                           *)
(***************************************************************************)
C12_HeaderValidated ==
    (carg.op = "TArray::read" /\ carg.data # 0 /\ cret # <<>>) =>
        /\ carg.num = 0 => cret[1] = Ok(<<>>)
        /\ carg.num = carg.max => (cret[1].ok /\ Len(cret[1].val) = carg.max)
        /\ carg.num > carg.max => ~cret[1].ok

(***************************************************************************)
(* C13: the data pointer of an inline-or-heap allocator is the secondary   *)
(* heap pointer when that is not null and the inline region otherwise;     *)
(* the same values read through either give the same vector; a flagged     *)
(* pointer is null iff the pointer in it is null.                          *)
(***************************************************************************)
C13_InlineOrHeap ==
    /\ (carg.op = "TInlineAlloc::data" /\ cret # <<>>) =>
        /\ cret[1].ptr = (IF carg.heap THEN Remote(HeapAddress)
                          ELSE Local(InlineAddress, InlineAlloc(carg).inline_data))
        /\ cret[1].vec = Ok(carg.values)
    /\ (carg.op = "FlaggedPtr::is_null" /\ cret # <<>>) =>
        (cret[1] <=> (carg.ptr.address = 0))

\* an array that fills the inline slots was read from the inline region
C13_Witness ==
    /\ carg.op = "TInlineAlloc::data"
    /\ ~carg.heap
    /\ Len(carg.values) = carg.N
    /\ carg.N > 1
    /\ cret # <<>>
    /\ cret[1].ptr.kind = "Local"
    /\ cret[1].vec = Ok(ValuesOf(carg.N))

(***************************************************************************)
(* C14: a length-prefixed string decodes to the UTF-16 decoding of the     *)
(* units before the first zero unit, of all num units when there is none;  *)
(* units after the first zero do not matter; an invalid sequence in the    *)
(* prefix is an error.                                                     *)
(***************************************************************************)
BeforeZero(u) ==
    SubSeq(u, 1, Cardinality({k \in 1..Len(u) : \A j \in 1..k : u[j] # 0}))

C14_StringPrefix ==
    (carg.op = "FString::read" /\ cret # <<>>) =>
        /\ cret[1] = (IF carg.cut THEN Err ELSE carg.text.expect)
        /\ ~carg.cut => cret[1] = from_utf16(BeforeZero(carg.text.units))

\* a string with units after its first zero, one of them a lone surrogate
C14_Witness ==
    /\ carg.op = "FString::read"
    /\ carg.text.units = <<72, 0, 56832>>
    /\ cret = <<Ok(<<72>>)>>

\* read_struct and read_props have returned
MapDone == parg.op = "read_struct" /\ pret # <<>>
ReadDone == parg.op = "read_props" /\ pret # <<>>

\* the kind read_struct gave the property name
MappedKind(name) ==
    pret[1].val[CHOOSE k \in 1..Len(pret[1].val) : pret[1].val[k].name = name].type.kind

\* where the property map read_props returned has name, and its value
EntryAt(name) == {k \in 1..Len(pret[1].val) : pret[1].val[k][1] = name}
ValueOf(name) == pret[1].val[CHOOSE k \in EntryAt(name) : TRUE][2]

\* the properties Z and A of the object are in the map with their values
OthersEmitted ==
    /\ pret[1].ok
    /\ Cardinality(EntryAt("Z")) = 1
    /\ ValueOf("Z") = [kind |-> "Int16", value |-> 513]
    /\ Cardinality(EntryAt("A")) = 1
    /\ ValueOf("A") = [kind |-> "Byte", tag |-> "Value", value |-> 9]

\* size bytes of the object of the call from offset at on
StoredAt(c, at, size) == SubSeq(ObjectBytes(c), at + 1, at + size)

\* the integer of a numeric kind the object holds at offset at
NumberAt(c, kind, at) ==
    IF kind \in {"Byte", "UInt16", "UInt32"} THEN le_value(StoredAt(c, at, KindSize(kind)))
    ELSE signed_value(StoredAt(c, at, KindSize(kind)))

\* the value of a numeric kind the object holds at offset at
NumericAt(c, kind, at) ==
    IF kind = "Byte" THEN [kind |-> "Byte", tag |-> "Value", value |-> NumberAt(c, kind, at)]
    ELSE [kind |-> kind, value |-> NumberAt(c, kind, at)]

(***************************************************************************)
(* C15: the type mapper never gives Object to a flag set with the Class    *)
(* flag, SoftObject to one with the SoftClass flag, or Delegate to one     *)
(* with a MulticastInline or MulticastSparse delegate flag, and two        *)
(* properties of the same flag set get the same kind.                      *)
(***************************************************************************)
C15_MostSpecificFirst ==
    (MapDone /\ pret[1].ok /\ parg.is_property) =>
        /\ "Class" \in parg.flags => MappedKind("X") # "Object"
        /\ "SoftClass" \in parg.flags => MappedKind("X") # "SoftObject"
        /\ (parg.flags \cap {"MulticastInlineDelegate", "MulticastSparseDelegate"} # {}) =>
               MappedKind("X") # "Delegate"
        /\ MappedKind("X") = MappedKind("Y")

\* a class property, which has the flags of an object property as well,
\* was mapped to Class
C15_Witness ==
    /\ MapDone
    /\ parg.flags = {"Class", "Object"}
    /\ parg.is_property
    /\ pret[1].ok
    /\ MappedKind("X") = "Class"
    /\ MappedKind("Y") = "Class"

(***************************************************************************)
(* C16: a property whose cast flags match no arm of the type mapper or of  *)
(* the value reader ends the call with a panic that reports the flags;     *)
(* whenever a result is returned every property has a kind of one of its   *)
(* flags, none is passed over.                                             *)
(***************************************************************************)
ReaderFlags == {ReaderArms[k] : k \in 1..Len(ReaderArms)}

C16_UnmatchedIsFatal ==
    /\ (MapDone /\ parg.is_property /\ parg.readable /\ parg.flags \cap ArmFlags = {}) =>
           pret[1] = Panic("unimplemented", parg.flags \cup {"Property"})
    /\ (MapDone /\ parg.is_property /\ parg.readable /\ parg.refs_ok
        /\ first_arm(MapperArms, parg.flags) \in InnerArms /\ parg.under = "Numeric") =>
           pret[1] = Panic("unimplemented", {"Numeric", "Property"})
    /\ (MapDone /\ parg.is_property /\ pret[1].ok) =>
           /\ Len(pret[1].val) = Len(StructFields(parg))
           /\ \A k \in 1..Len(pret[1].val) :
                  pret[1].val[k].type.kind \in StructFields(parg)[k].flags
    /\ (ReadDone /\ parg.flags \cap ReaderFlags = {}) =>
           pret[1] = Panic("unimplemented", parg.flags \cup {"Property"})

\* a property with the flag of numeric properties alone ended read_struct
C16_Witness ==
    /\ MapDone
    /\ parg.is_property
    /\ parg.flags = {"Numeric"}
    /\ pret = <<Panic("unimplemented", {"Numeric", "Property"})>>

(***************************************************************************)
(* C17: for a property of kind Text, Delegate, MulticastInlineDelegate,    *)
(* MulticastSparseDelegate, Map, Set, SoftObject, WeakObject, LazyObject,  *)
(* Interface, FieldPath or Optional the value reader returns absent, not   *)
(* an error; the property map has no entry of its name and has the other   *)
(* properties of the struct.                                               *)
(***************************************************************************)
UnsupportedKinds ==
    {"Text", "Delegate", "MulticastInlineDelegate", "MulticastSparseDelegate", "Map", "Set",
     "SoftObject", "WeakObject", "LazyObject", "Interface", "FieldPath", "Optional"}

C17_UnsupportedAbsent ==
    (ReadDone /\ parg.case = "kind" /\ parg.mapped
     /\ first_arm(MapperArms, parg.flags) \in UnsupportedKinds) =>
        /\ read_prop(Target(parg), XProp(parg), ObjectBase, 0) = Ok(None)
        /\ pret[1].ok
        /\ EntryAt("X") = {}
        /\ OthersEmitted

\* the map of an object with a Map property has Z and A alone
C17_Witness ==
    /\ ReadDone
    /\ parg.case = "kind"
    /\ parg.flags = {"Map"}
    /\ pret = <<Ok(<< <<"Z", [kind |-> "Int16", value |-> 513]>>,
                      <<"A", [kind |-> "Byte", tag |-> "Value", value |-> 9]>> >>)>>

(***************************************************************************)
(* C18: a property with array_dim > 1 is read at the indices               *)
(* 0..array_dim-1 in order and gives one Array value of array_dim          *)
(* elements under its name; if an element is absent the property has no    *)
(* entry and the properties after it are read; with array_dim = 1 the      *)
(* value is not wrapped.                                                   *)
(***************************************************************************)
\* the arrays the elements of the array property of the call are
ElementArray(c, k) ==
    [kind |-> "Array",
     value |-> [j \in 1..c.counts[k] |->
                   [kind |-> "Int16",
                    value |-> signed_value(SubSeq(HeapBytes, 2 * j - 1, 2 * j))]]]

C18_StaticArray ==
    /\ (ReadDone /\ parg.case = "dim" /\ parg.flags # {"Text"}) =>
        /\ OthersEmitted
        /\ Cardinality(EntryAt("X")) = 1
        /\ parg.dim = 1 =>
               ValueOf("X") = NumericAt(parg, CHOOSE k \in parg.flags : TRUE, parg.offset)
        /\ parg.dim > 1 =>
               /\ ValueOf("X").kind = "Array"
               /\ ValueOf("X").value =
                      [k \in 1..parg.dim |->
                          NumericAt(parg, CHOOSE kind \in parg.flags : TRUE,
                                    parg.offset + (k - 1) * parg.size)]
    /\ (ReadDone /\ parg.case = "dim" /\ parg.flags = {"Text"}) =>
        /\ OthersEmitted
        /\ EntryAt("X") = {}
    /\ (ReadDone /\ parg.case = "array" /\ parg.under = "Text") =>
        /\ OthersEmitted
        /\ IF \E k \in 1..parg.dim : parg.counts[k] > 0
           THEN EntryAt("X") = {}
           ELSE /\ Cardinality(EntryAt("X")) = 1
                /\ ValueOf("X") =
                       (IF parg.dim = 1 THEN [kind |-> "Array", value |-> <<>>]
                        ELSE [kind |-> "Array",
                              value |-> [k \in 1..parg.dim |->
                                            [kind |-> "Array", value |-> <<>>]]])
    /\ (ReadDone /\ parg.case = "array" /\ parg.under = "Int16") =>
        /\ OthersEmitted
        /\ Cardinality(EntryAt("X")) = 1
        /\ ValueOf("X") =
               (IF parg.dim = 1 THEN ElementArray(parg, 1)
                ELSE [kind |-> "Array",
                      value |-> [k \in 1..parg.dim |-> ElementArray(parg, k)]])

\* three Int16 of an object were read into one Array: 5, 1536 and 3
C18_Witness ==
    /\ ReadDone
    /\ parg.case = "dim"
    /\ parg.flags = {"Int16"}
    /\ parg.dim = 3
    /\ pret[1].ok
    /\ ValueOf("X") = [kind |-> "Array",
                       value |-> <<[kind |-> "Int16", value |-> 5],
                                   [kind |-> "Int16", value |-> 1536],
                                   [kind |-> "Int16", value |-> 3]>>]

(***************************************************************************)
(* C19: the value of an Enum property is the name of an entry of the       *)
(* names table of its enum whose integer is the integer v read through    *)
(* the underlying property, and v itself when there is no such entry.      *)
(***************************************************************************)
EnumTable == NamesTables[parg.names]
EnumNumber == NumberAt(parg, parg.under, parg.offset)

C19_EnumName ==
    (ReadDone /\ parg.case = "enum" /\ parg.names # 0
     /\ parg.under \in {"Byte", "Int8", "Int16", "Int", "UInt16", "UInt32"}) =>
        /\ OthersEmitted
        /\ Cardinality(EntryAt("X")) = 1
        /\ ValueOf("X").kind = "Enum"
        /\ IF \E k \in 1..Len(EnumTable) : EnumTable[k][2] = EnumNumber
           THEN /\ ValueOf("X").tag = "Name"
                /\ \E k \in 1..Len(EnumTable) :
                       EnumTable[k][2] = EnumNumber /\ EnumTable[k][1] = ValueOf("X").name
           ELSE /\ ValueOf("X").tag = "Value"
                /\ ValueOf("X").value = EnumNumber
        /\ (parg.names = 1 /\ EnumNumber = 3) =>
               ValueOf("X") = [kind |-> "Enum", tag |-> "Value", value |-> 3]

\* with the names A = 0, B = 1 and C = 5 the integer 5 was read as C
C19_Witness ==
    /\ ReadDone
    /\ parg.case = "enum"
    /\ parg.names = 1
    /\ parg.under = "Byte"
    /\ EnumNumber = 5
    /\ pret[1].ok
    /\ ValueOf("X") = [kind |-> "Enum", tag |-> "Name", name |-> "C"]

(***************************************************************************)
(* C20: the value of a Bool property is true iff the one byte at           *)
(* base + offset_internal + index * element_size + byte_offset, base the   *)
(* start of the bytes of the object, has a bit of byte_mask set.           *)
(***************************************************************************)
\* byte and byte_mask have a bit in common
Masked(byte, byte_mask) ==
    \E bit \in {1, 2, 4, 8, 16, 32, 64, 128} :
        (byte \div bit) % 2 = 1 /\ (byte_mask \div bit) % 2 = 1

BoolAt(c, at) == [kind |-> "Bool", value |-> Masked(ObjectBytes(c)[at + 1], c.byte_mask)]

C20_BoolByte ==
    (ReadDone /\ parg.case = "bool") =>
        /\ OthersEmitted
        /\ Cardinality(EntryAt("X")) = 1
        /\ parg.dim = 1 => ValueOf("X") = BoolAt(parg, parg.offset + parg.byte_offset)
        /\ parg.dim > 1 =>
               ValueOf("X") =
                   [kind |-> "Array",
                    value |-> [k \in 1..parg.dim |->
                                  BoolAt(parg, parg.offset + ((k - 1) * parg.size)
                                               + parg.byte_offset)]]

\* byte_offset 3 and byte_mask 4 of a property at offset 4: byte 7 of the
\* object, 6, was read, not byte 3, which is 3
C20_Witness ==
    /\ ReadDone
    /\ parg.case = "bool"
    /\ parg.dim = 1
    /\ parg.offset = 4
    /\ parg.byte_offset = 3
    /\ parg.byte_mask = 4
    /\ ObjectBytes(parg)[8] = 6
    /\ ObjectBytes(parg)[4] = 3
    /\ pret[1].ok
    /\ ValueOf("X") = [kind |-> "Bool", value |-> TRUE]

\* C20 as stated: the byte read is the one at base + byte_offset
C20_BoolByteAtBase ==
    (ReadDone /\ parg.case = "bool" /\ parg.dim = 1) =>
        /\ pret[1].ok
        /\ ValueOf("X") = BoolAt(parg, parg.byte_offset)

(***************************************************************************)
(* C21: the value of element i of a property is read at                    *)
(* base + offset_internal + i * element_size of the bytes of the object,   *)
(* and a numeric leaf has the width and the signedness of its kind: an     *)
(* Int at offset 8 of an object with the bytes 2A 00 00 00 there is 42.    *)
(***************************************************************************)
\* the bytes of a kind, and the kinds that are signed
WidthOf ==
    [Byte |-> 1, Int8 |-> 1, Int16 |-> 2, UInt16 |-> 2, Int |-> 4, UInt32 |-> 4,
     Int64 |-> 8, UInt64 |-> 8, Float |-> 4, Double |-> 8]
SignedKinds == {"Int8", "Int16", "Int"}

\* the integer of at most four little-endian bytes, the last one taken as
\* top
Weighted(b, top) ==
    (IF Len(b) = 1 THEN 0 ELSE b[1])
    + (IF Len(b) > 2 THEN (256 * b[2]) + (65536 * b[3]) ELSE 0)
    + (top * (IF Len(b) = 1 THEN 1 ELSE IF Len(b) = 2 THEN 256 ELSE 16777216))

\* the value of kind the bytes b are
LeafOf(kind, b) ==
    IF WidthOf[kind] = 8 \/ kind = "Float" THEN [kind |-> kind, value |-> b]
    ELSE IF kind = "Byte"
    THEN [kind |-> kind, tag |-> "Value", value |-> b[1]]
    ELSE [kind |-> kind,
          value |-> Weighted(b, IF kind \in SignedKinds /\ b[Len(b)] >= 128
                                THEN b[Len(b)] - 256 ELSE b[Len(b)])]

\* the value of the kind of X the object holds at offset at
LeafAt(c, at) ==
    LeafOf(CHOOSE k \in c.flags : TRUE,
           StoredAt(c, at, WidthOf[CHOOSE k \in c.flags : TRUE]))

C21_ElementAddress ==
    (ReadDone /\ parg.case = "num") =>
        /\ OthersEmitted
        /\ Cardinality(EntryAt("X")) = 1
        /\ parg.dim = 1 => ValueOf("X") = LeafAt(parg, parg.offset)
        /\ parg.dim > 1 =>
               /\ ValueOf("X").kind = "Array"
               /\ ValueOf("X").value =
                      [k \in 1..parg.dim |->
                          LeafAt(parg, parg.offset + (k - 1) * parg.size)]

\* the Int at offset 8 of the object with 2A 00 00 00 there was read as 42
C21_Witness ==
    /\ ReadDone
    /\ parg.case = "num"
    /\ parg.flags = {"Int"}
    /\ parg.offset = 8
    /\ parg.dim = 1
    /\ StoredAt(parg, 8, 4) = <<42, 0, 0, 0>>
    /\ pret[1].ok
    /\ ValueOf("X") = [kind |-> "Int", value |-> 42]

(***************************************************************************)
(* C27: the value of an Array property is read from data_ptr at the field  *)
(* and num at the field + 8: element i at data_ptr + i * element_size of   *)
(* the inner property, an Array of num values in index order, empty for    *)
(* num = 0.                                                                *)
(***************************************************************************)
\* num of the array at the field of the call
NumAt(c) == c.counts[(c.offset \div 16) + 1]

C22_ItemAddress ==
    (carg.op = "read_item_ptr" /\ cret # <<>> /\ ~carg.cut) =>
        /\ cret[1].ok
        /\ cret[1].val.item = ChunkAddress[(carg.item \div 65536) + 1]
                              + (carg.stride * (carg.item % 65536))
        /\ cret[1].val.object = (IF carg.null THEN None
                                 ELSE Some(ObjectOf(carg, carg.item)))

(***************************************************************************)
(* C26: for_each_prop walks the chain of the struct from its head to the   *)
(* null next, then the chain of the super struct, until the super struct   *)
(* is null; f is called once for every node whose flags contain Property   *)
(* and for no other node, every node is passed, and the properties of the  *)
(* derived struct come before those of its base, in chain order.           *)
(***************************************************************************)
IsPrefix(a, b) == Len(a) <= Len(b) /\ a = SubSeq(b, 1, Len(a))

C26_PropertyWalk ==
    (parg.op = "for_each_prop" /\ pret # <<>>) =>
        /\ IsPrefix(pret[1].visited, WalkNodes(parg, 1))
        /\ pret[1].called
              = SelectSeq(pret[1].visited, LAMBDA n : NodeIsProperty(parg, n))
        /\ pret[1].state = "Done" =>
              /\ pret[1].visited = WalkNodes(parg, 1)
              /\ pret[1].called
                    = [k \in 1..Len(for_each_prop(WalkStruct(parg, 1))) |->
                          for_each_prop(WalkStruct(parg, 1))[k].name]
        /\ pret[1].state = "Err" =>
              (parg.cut > 0 /\ Len(pret[1].visited) = parg.cut - 1)
        /\ (parg.cut = 0 \/ parg.cut > Len(WalkNodes(parg, 1))) => pret[1].state # "Err"

\* a struct with the chain property, field, property, its super struct with
\* field, property and the super struct of that with one property
C26_Witness ==
    /\ parg.op = "for_each_prop"
    /\ pret # <<>>
    /\ pret[1].state = "Done"
    /\ pret[1].visited = <<<<1, 1>>, <<1, 2>>, <<1, 3>>, <<2, 1>>, <<2, 2>>, <<3, 1>>>>
    /\ pret[1].called = <<<<1, 1>>, <<1, 3>>, <<2, 2>>, <<3, 1>>>>

(***************************************************************************)
(* C28: read_path returns when the outer chain of the object reaches a     *)
(* null outer, with one name per object of the chain; it keeps no set of   *)
(* visited objects and no depth limit, so on an outer chain with a cycle   *)
(* it never returns, and every turn of its loop appends to its vector.     *)
(***************************************************************************)
\* where the outer chain of o ends: at a null outer, in unmapped memory, or
\* never
RECURSIVE ChainEnd(_, _)
ChainEnd(o, fuel) ==
    IF ~Mapped(o) THEN "unmapped"
    ELSE IF heap[o].outer = 0 THEN "null"
    ELSE IF fuel = 0 THEN "cycle"
    ELSE ChainEnd(heap[o].outer, fuel - 1)

Separators(path) == Cardinality({k \in 1..Len(path) : path[k] \in {".", ":"}})

PathCalled == parg.op = "read_path" /\ pret # <<>>

C28_PathWalkState ==
    PathCalled =>
        /\ \A k \in 1..(Len(pret[1].objects) - 1) :
               pret[1].objects[k + 1] = heap[pret[1].objects[k]].outer
        /\ pret[1].objects[1] = parg.obj
        /\ pret[1].state = "Done" =>
               /\ ChainEnd(parg.obj, NumObjects) = "null"
               /\ Len(pret[1].objects) = ChainLength(parg.obj)
               /\ pret[1].path = QualifiedPath(parg.obj)
               /\ Separators(pret[1].path) = Len(pret[1].objects) - 1
        /\ pret[1].state = "Err" => ChainEnd(parg.obj, NumObjects) = "unmapped"
        /\ ChainEnd(parg.obj, NumObjects) = "cycle" => pret[1].state = "walking"

C28_CycleNeverReturns ==
    /\ []C28_PathWalkState
    /\ [][(PathCalled /\ ChainEnd(parg.obj, NumObjects) = "cycle") =>
             /\ pret'[1].state = "walking"
             /\ pret'[1].objects
                   = Append(pret[1].objects, heap[pret[1].objects[Len(pret[1].objects)]].outer)]_vars
    /\ (parg.op = "read_path" /\ ChainEnd(parg.obj, NumObjects) = "null")
          ~> (PathCalled /\ pret[1].state = "Done")

\* two objects that are the outer of each other: the vector has passed each
\* of them several times and the walk has not returned
C28_Witness ==
    /\ PathCalled
    /\ ChainEnd(parg.obj, NumObjects) = "cycle"
    /\ pret[1].state = "walking"
    /\ Len(pret[1].objects) = MaxPath
    /\ \E a, b \in 1..MaxPath : a < b /\ pret[1].objects[a] = pret[1].objects[b]
    /\ Cardinality({pret[1].objects[k] : k \in 1..MaxPath}) = 2

(***************************************************************************)
(* C23: there is no recovery per object: when a read fails for any object  *)
(* of the array, the dump returns the error and no snapshot; a dump that   *)
(* returned Ok has met no object whose reads fail.                         *)
(***************************************************************************)
C23_NoPerObjectRecovery ==
    /\ result = "ok" => \A k \in 1..Len(items) : loop_body(items[k]).ok
    /\ \A k \in 1..i : loop_body(items[k]).ok
    /\ result = "err" => (i < Len(items) /\ ~loop_body(items[i + 1]).ok)
    /\ (i < Len(items) /\ ~loop_body(items[i + 1]).ok) => result \in {"running", "err"}

\* the last item points to unmapped memory: the objects before it were
\* built, and the dump ends with the error
C23_Witness ==
    /\ result = "err"
    /\ i = Len(items) - 1
    /\ i >= 2
    /\ objects # <<>>

(***************************************************************************)
(* C25 as stated: after a dump that returned Ok, every struct, class or    *)
(* function entry with a super struct has an entry at the super's path.    *)
(***************************************************************************)
C25_SuperInSnapshot ==
    result = "ok" =>
        \A p \in DOMAIN objects :
            (objects[p].kind \in StructKinds /\ objects[p].super_struct # None) =>
                objects[p].super_struct[1] \in DOMAIN objects

\* the items of the object array
ItemSet == {items[k] : k \in 1..Len(items)}

(***************************************************************************)
(* C25 amended: every emitted struct, class or function records the path   *)
(* of its super struct, and after a dump that returned Ok the snapshot has *)
(* an entry at that path when the super struct is itself an item of the    *)
(* object array and its path starts with /Script/.                         *)
(***************************************************************************)
C25_SuperRecorded ==
    \A o \in DOMAIN emitted :
        (emitted[o].object.kind \in StructKinds /\ heap[o].super # 0) =>
            /\ emitted[o].object.super_struct = Some(read_path(heap[o].super).val)
            /\ (/\ result = "ok"
                /\ heap[o].super \in ItemSet
                /\ HasScriptPrefix(read_path(heap[o].super).val))
               => read_path(heap[o].super).val \in DOMAIN objects

\* a class derived from another class of the array, both in the snapshot
C25_Witness ==
    /\ result = "ok"
    /\ \E o \in DOMAIN emitted :
        /\ emitted[o].object.kind = "Class"
        /\ heap[o].super \in ItemSet \ {0, o}
        /\ emitted[o].object.super_struct # None
        /\ emitted[o].object.super_struct[1] \in DOMAIN objects
        /\ emitted[o].path # emitted[o].object.super_struct[1]

(***************************************************************************)
(* C24: the iteration of a sparse array visits the indices below num_bits  *)
(* whose allocation bit is set, in ascending order, each once: none when   *)
(* all bits are clear, num_bits of them when all are set, and never a bit  *)
(* of the last word at or after num_bits.                                  *)
(***************************************************************************)
C24_SparseIteration ==
    (carg.op = "iter_live" /\ cret # <<>>) =>
        /\ cret[1].ok
        /\ \A k \in 1..Len(cret[1].yielded) :
               /\ cret[1].yielded[k] \in 0..(carg.num_bits - 1)
               /\ Live(carg, cret[1].yielded[k])
               /\ \A j \in 1..(k - 1) : cret[1].yielded[j] < cret[1].yielded[k]
        /\ cret[1].done =>
               /\ {cret[1].yielded[k] : k \in 1..Len(cret[1].yielded)}
                      = {p \in 0..(carg.num_bits - 1) : Live(carg, p)}
               /\ carg.pattern = "clear" => cret[1].yielded = <<>>
               /\ carg.pattern = "set" => Len(cret[1].yielded) = carg.num_bits

\* 33 bits, all set and the rest of the second word set as well: 33 indices
C24_Witness ==
    /\ carg.op = "iter_live"
    /\ carg.num_bits = 33
    /\ carg.pattern = "set"
    /\ carg.stray
    /\ cret # <<>>
    /\ cret[1].done
    /\ cret[1].yielded = [k \in 1..33 |-> k - 1]

Returned(t) == pc[t] = "done" /\ ret[t] \in {"Ok", "Some"}

(***************************************************************************)
(* C6: a read_buf call that returns Ok has filled the caller's buffer with *)
(* exactly the bytes the wrapped reader holds for [address, address+len),  *)
(* for ranges inside a page, across one or two page boundaries, and served *)
(* partly from the map and partly by fetch.                                *)
(***************************************************************************)
C6_ReadBufEqualsReader ==
    \A t \in Threads :
        Returned(t) =>
            \A x \in 0..(req[t].len - 1) :
                BufByte(buf[t], x) = MemByte(req[t].address + x)

\* a read that starts mid-page, crosses two boundaries and mixes hit and fetch
C6_Witness ==
    \E t \in Threads :
        /\ Returned(t)
        /\ req[t].address = PAGE_SIZE - 1
        /\ req[t].len = PAGE_SIZE + 2
        /\ Len(buf[t]) = 3
        /\ hits[t] \in {1, 2}

(***************************************************************************)
(* C7: the wrapped reader succeeds at most once per page base: a page in   *)
(* the map is served from the map.                                         *)
(***************************************************************************)
C7_PageFetchedOnce ==
    \A b \in DOMAIN innerOk : innerOk[b] <= 1

\* a second call touched a page that the first call had fetched
C7_Witness ==
    \E t \in Threads :
        /\ hits[t] >= 1
        /\ calls = MaxCalls
        /\ \E b \in DOMAIN pages : innerOk[b] = 1

(***************************************************************************)
(* C8: a failed wrapped read makes read_buf return the error and leaves    *)
(* the map as it was; the map holds only full pages of successful reads.   *)
(***************************************************************************)
C8_OnlyFetchedPages ==
    \A b \in DOMAIN pages :
        /\ Count(innerOk, b) >= 1
        /\ pages[b].from = b
        /\ pages[b].len = PAGE_SIZE

C8_FailStep ==
    \A t \in Threads :
        (pc[t] = "loop" /\ ret'[t] = "Err") =>
            /\ pc'[t] = "done"
            /\ page_start(t) \notin DOMAIN pages'
            /\ pages' = pages

C8_FailedPageNotCached == []C8_OnlyFetchedPages /\ [][C8_FailStep]_vars

\* the page whose read failed was asked for again by a later read, and fetched
C8_Witness ==
    \E t \in Threads :
        /\ pc[t] = "done" /\ ret[t] = "Err"
        /\ page_start(t) \in DOMAIN pages
        /\ innerOk[page_start(t)] = 1

(***************************************************************************)
(* C9: the page-map mutex is held by at most one read_buf call, exactly    *)
(* while that call is between lock() and its return (Ok or Err), and a     *)
(* caller waiting for it gets its answer.                                  *)
(***************************************************************************)
C9_Mutex ==
    /\ Cardinality(lock) <= 1
    /\ \A t \in Threads : (pc[t] = "loop") <=> (t \in lock)

C9_MutexScoped ==
    /\ []C9_Mutex
    /\ \A t \in Threads : (pc[t] = "lock") ~> (pc[t] = "done")

\* one call has returned an error while another is waiting for the mutex
C9_Witness ==
    \E t, u \in Threads :
        /\ pc[t] = "done" /\ ret[t] = "Err"
        /\ pc[u] = "lock"
        /\ lock = {}

(***************************************************************************)
(* C10: read_opt on a null pointer returns None without calling the memory *)
(* reader, each time it is called; on a non-null pointer it calls the      *)
(* reader once and returns Some(value) or the error.                       *)
(***************************************************************************)
C10_Answer ==
    \A t \in Threads :
        (pc[t] = "done" /\ req[t].kind = "read_opt") =>
            IF req[t].address = 0 THEN ret[t] = "None" ELSE ret[t] \in {"Some", "Err"}

C10_Start ==
    \A t \in Threads :
        (pc[t] = "idle" /\ pc'[t] # "idle" /\ req'[t].kind = "read_opt") =>
            IF req'[t].address = 0
            THEN /\ memCalls' = memCalls
                 /\ innerOk' = innerOk /\ pages' = pages
                 /\ pc'[t] = "done"
            ELSE /\ memCalls' = memCalls + 1
                 /\ pc'[t] = "lock"

C10_ReadOptNull == []C10_Answer /\ [][C10_Start]_vars

\* read_opt on null repeated MaxCalls times, the reader never called
C10_Witness ==
    /\ calls = MaxCalls
    /\ memCalls = 0
    /\ \A t \in Threads : pc[t] = "done" => (req[t].kind = "read_opt" /\ ret[t] = "None")
    /\ \E t \in Threads : pc[t] = "done"

(***************************************************************************)
(* The decoders, each called once on one of the inputs.                    *)
(***************************************************************************)
(***************************************************************************)
(* C29: the page map only grows and is never rewritten: a page base in the *)
(* map stays in it with the bytes of its first fetch, every key is a       *)
(* multiple of PAGE_SIZE, and a read of a page of the map returns the      *)
(* stored bytes, whatever the target has written since.                    *)
(***************************************************************************)
PageBase(a) == a - (a % PAGE_SIZE)

C29_Pages ==
    /\ \A b \in DOMAIN pages :
          /\ b % PAGE_SIZE = 0
          /\ pages[b].from = b
          /\ pages[b].len = PAGE_SIZE
          /\ innerOk[b] = 1
    /\ \A t \in Threads :
          Returned(t) =>
              \A x \in 0..(req[t].len - 1) :
                  /\ PageBase(req[t].address + x) \in DOMAIN pages
                  /\ BufByte(buf[t], x)
                        = SliceByte(pages[PageBase(req[t].address + x)],
                                    (req[t].address + x) % PAGE_SIZE)

C29_Kept == \A b \in DOMAIN pages : b \in DOMAIN pages' /\ pages'[b] = pages[b]

C29_GrowOnly == []C29_Pages /\ [][C29_Kept]_vars

\* a read served from the map returned a byte the target has since replaced
C29_Witness ==
    \E t \in Threads :
        /\ Returned(t)
        /\ hits[t] >= 1
        /\ req[t].len > 0
        /\ BufByte(buf[t], 0) # MemByte(req[t].address)
        /\ BufByte(buf[t], 0) = BaseByte(req[t].address)

(***************************************************************************)
(* C30: when the wrapped reader fails on a later page of a read of several *)
(* pages, the call returns the error with the pages it fetched before      *)
(* still in the map and their bytes already copied to the caller's buffer; *)
(* of the pages of the call, only the failing one and those after it can   *)
(* be absent.                                                              *)
(***************************************************************************)
Failed(t) == pc[t] = "done" /\ ret[t] = "Err"

RECURSIVE Copied(_, _)
Copied(b, k) == IF k = 0 THEN 0 ELSE b[k].n + Copied(b, k - 1)

C30_Failed ==
    \A t \in Threads :
        Failed(t) =>
            /\ cur[t] = Copied(buf[t], Len(buf[t]))
            /\ remaining[t] = req[t].len - cur[t]
            /\ remaining[t] > 0
            /\ \A k \in 1..Len(buf[t]) :
                  /\ buf[t][k].page.from \in DOMAIN pages
                  /\ pages[buf[t][k].page.from] = buf[t][k].page
            /\ \A x \in 0..(cur[t] - 1) :
                  /\ PageBase(req[t].address + x) \in DOMAIN pages
                  /\ BufByte(buf[t], x) = MemByte(req[t].address + x)

C30_FailStep ==
    \A t \in Threads :
        (pc[t] = "loop" /\ ret'[t] = "Err") =>
            /\ buf'[t] = buf[t]
            /\ cur'[t] = cur[t]
            /\ PageBase(req[t].address + cur[t]) \notin DOMAIN pages'
            /\ \A x \in 0..(cur[t] - 1) : PageBase(req[t].address + x) \in DOMAIN pages'

C30_PartialEffect == []C30_Failed /\ [][C30_FailStep]_vars

\* a read of three pages fetched the first two itself and failed on the third
C30_Witness ==
    \E t \in Threads :
        /\ Failed(t)
        /\ hits[t] = 0
        /\ Len(buf[t]) = 2
        /\ cur[t] = PAGE_SIZE + 1
        /\ {buf[t][1].page.from, buf[t][2].page.from} \subseteq DOMAIN pages
        /\ PageBase(req[t].address + cur[t]) \notin DOMAIN pages

InitContainers ==
    /\ IdleCache
    /\ IdleDump
    /\ IdleProps
    /\ carg \in NameCalls \cup ArrayCalls \cup InlineCalls \cup NullCalls \cup StringCalls
                \cup ItemCalls \cup BitCalls
    /\ cret = <<>>

NextContainers ==
    \/ PtrFNamePool_read_call
    \/ TArray_read_call
    \/ TInlineAlloc_data_call
    \/ FlaggedPtr_is_null_call
    \/ FString_read_call
    \/ read_item_ptr_call
    \/ bit_iterator_step

SpecContainers == InitContainers /\ [][NextContainers]_vars

(***************************************************************************)
(* The type mapper and the value reader, each called once on one of the    *)
(* inputs.                                                                 *)
(***************************************************************************)
InitProps ==
    /\ IdleCache
    /\ IdleDump
    /\ IdleContainers
    /\ parg \in MapCalls \cup ReadCalls \cup WalkCalls
    /\ pret = <<>>

NextProps ==
    \/ read_struct_call
    \/ read_props_call
    \/ for_each_prop_step

SpecProps == InitProps /\ [][NextProps]_vars

====
